---- MODULE Spec2Model ----
(***************************************************************************)
(* A model of the sharded key-value store core: the write-ahead log        *)
(* (app/storage/wal.py), the storage engine that sits on it                *)
(* (app/storage/engine.py), the consistent-hash ring                       *)
(* (app/cluster/consistent_hash.py) and the shard manager                  *)
(* (app/cluster/shard_manager.py).                                         *)
(*                                                                         *)
(* The log file is a flat sequence of tokens, the way the bytes of the     *)
(* file are a flat sequence: a record has no boundary of its own, only the *)
(* newline token that append() writes after it.  replay() splits the file  *)
(* on newlines and parses each line, so a torn record and the record       *)
(* written after it end up on one line.                                    *)
(***************************************************************************)
EXTENDS Integers, Sequences, FiniteSets, TLC

\* ------------------------------------------------------------- bounds
MaxEvents == 3     \* calls issued to the engine, and crashes, over one run of the engine model
MaxCalls == 2      \* calls issued to the engine while its calls are recorded
MaxLines == 3      \* lines already in the file when a WriteAheadLog is opened on it
MaxAppends == 2    \* append() calls (whole or torn) in the log model
MaxTorn == 1       \* appends cut short by a crash in the log model
HashSpace == 3     \* positions on the ring, standing for the 2^64 of the source
MaxRingCalls == 3  \* calls made on one ring in the ring model
MaxShards == 2     \* shards of a manager
MaxVnodes == 2     \* vnodes on the ring of a manager
MaxManagerCalls == 2   \* calls made on one manager after its initialize()
MaxClusterCalls == 2   \* key calls made on a manager by concurrent callers
MaxCloses == 2         \* close() calls made on a manager

Keys == {"a", "b"}
Values == {"1", "2"}
Tasks == {"t1", "t2"}
Nodes == {"shard-0", "shard-1", "shard-2"}
ShardIds == {"shard-0", "shard-1"}  \* the shard ids a manager is constructed with
VnodeCounts == {1, 2}              \* the num_vnodes a ring is constructed with
Positions == 0..(HashSpace - 1)
None == "None"

\* ------------------------------------------------------------- tokens
Tok(kind, s) == [k |-> kind, s |-> s]
Str(s) == Tok("str", s)            \* a JSON string literal
Num(s) == Tok("num", s)            \* a JSON number
Lit(s) == Tok("lit", s)            \* null, true, false
Bare(s) == Tok("bare", s)          \* text that is no JSON token
LBRACE == Tok("p", "{")
RBRACE == Tok("p", "}")
LBRACK == Tok("p", "[")
RBRACK == Tok("p", "]")
NL == Tok("p", "\n")

\* int(time.time()): the value is never read back by replay().
Timestamp == Num("1705612800")

\* ------------------------------------------------------------- dict
EmptyMap == [x \in {} |-> None]
MapPut(m, k, v) == [x \in (DOMAIN m) \cup {k} |-> IF x = k THEN v ELSE m[x]]
MapPop_Keep(m, k) == m
MapPop(m, k) == [x \in (DOMAIN m) \ {k} |-> m[x]]
MapGet(m, k) == IF k \in DOMAIN m THEN m[k] ELSE None
MapLen(m) == Cardinality(DOMAIN m)

\* ------------------------------------------------------------- json
\* json.dumps(entry): the keys in insertion order op, key, ts, then value when
\* one was given.
DumpsNoValue(operation, key, value) ==
    <<LBRACE, Str("op"), Str(operation), Str("key"), Str(key),
      Str("ts"), Timestamp, RBRACE>>
Dumps(operation, key, value) ==
    <<LBRACE, Str("op"), Str(operation), Str("key"), Str(key),
      Str("ts"), Timestamp>>
    \o (IF value # None THEN <<Str("value"), Str(value)>> ELSE <<>>)
    \o <<RBRACE>>

\* line = json.dumps(entry) + "\n"
RecordLine(operation, key, value) == Dumps(operation, key, value) \o <<NL>>

Scalar(t) == t.k \in {"str", "num", "lit"}

\* The name/value pairs between the braces of an object.
IsPairs(body) ==
    /\ Len(body) % 2 = 0
    /\ \A i \in 1..Len(body) :
          IF i % 2 = 1 THEN body[i].k = "str" ELSE Scalar(body[i])

\* The dict of an object: a repeated name keeps its last value.
DictOf(body) ==
    LET names == {body[i].s : i \in {j \in 1..Len(body) : j % 2 = 1}}
        last(n) == CHOOSE i \in 1..Len(body) :
                      /\ i % 2 = 1 /\ body[i].s = n
                      /\ \A j \in 1..Len(body) :
                            (j % 2 = 1 /\ body[j].s = n) => j <= i
    IN  [n \in names |-> body[last(n) + 1]]

\* json.loads(line) of a non-empty line: a dict, another JSON value, or
\* JSONDecodeError.
Loads(line) ==
    IF Len(line) = 1
    THEN IF Scalar(line[1]) THEN [tag |-> "other"] ELSE [tag |-> "err"]
    ELSE IF /\ line[1] = LBRACK /\ line[Len(line)] = RBRACK
            /\ \A i \in 2..(Len(line) - 1) : Scalar(line[i])
    THEN [tag |-> "other"]
    ELSE IF /\ line[1] = LBRACE /\ line[Len(line)] = RBRACE
            /\ IsPairs(SubSeq(line, 2, Len(line) - 1))
    THEN [tag |-> "dict", d |-> DictOf(SubSeq(line, 2, Len(line) - 1))]
    ELSE [tag |-> "err"]

\* ------------------------------------------------------------- replay
\* "async for line in f": the file cut after every newline; a last line
\* without a newline is a line too.
RECURSIVE SplitLines(_, _)
SplitLines(toks, cur) ==
    IF toks = <<>> THEN (IF cur = <<>> THEN <<>> ELSE <<cur>>)
    ELSE IF Head(toks) = NL THEN <<cur>> \o SplitLines(Tail(toks), <<>>)
    ELSE SplitLines(Tail(toks), Append(cur, Head(toks)))

\* The body of the try block of replay() on a parsed line: the state after it,
\* or not ok when the exception it raises is none that replay() catches.
ApplyEntry_UnknownDeletes(state, e) ==
    IF e.tag = "other" THEN [ok |-> FALSE, state |-> state]
    ELSE IF "op" \notin DOMAIN e.d THEN [ok |-> TRUE, state |-> state]
    ELSE IF "key" \notin DOMAIN e.d THEN [ok |-> TRUE, state |-> state]
    ELSE IF e.d["op"] = Str("PUT")
         THEN IF "value" \notin DOMAIN e.d
              THEN [ok |-> TRUE, state |-> state]
              ELSE [ok |-> TRUE, state |-> MapPut(state, e.d["key"].s, e.d["value"].s)]
    ELSE [ok |-> TRUE, state |-> MapPop(state, e.d["key"].s)]
ApplyEntry(state, e) ==
    IF e.tag = "other" THEN [ok |-> FALSE, state |-> state]         \* TypeError: entry["op"]
    ELSE IF "op" \notin DOMAIN e.d THEN [ok |-> TRUE, state |-> state]   \* KeyError
    ELSE IF "key" \notin DOMAIN e.d THEN [ok |-> TRUE, state |-> state]  \* KeyError
    ELSE IF e.d["op"] = Str("PUT")
         THEN IF "value" \notin DOMAIN e.d
              THEN [ok |-> TRUE, state |-> state]                   \* KeyError
              ELSE [ok |-> TRUE, state |-> MapPut(state, e.d["key"].s, e.d["value"].s)]
    ELSE IF e.d["op"] = Str("DELETE")
         THEN [ok |-> TRUE, state |-> MapPop(state, e.d["key"].s)]
    ELSE [ok |-> TRUE, state |-> state]                             \* unknown operation

\* One pass of the loop body of replay() over a stripped, non-empty line: a
\* JSONDecodeError is caught and the line skipped.
ApplyLine_RaiseOnCorrupt(state, line) ==
    LET e == Loads(line) IN
    IF e.tag = "err" THEN [ok |-> FALSE, state |-> state] ELSE ApplyEntry(state, e)
ApplyLine(state, line) ==
    LET e == Loads(line) IN
    IF e.tag = "err" THEN [ok |-> TRUE, state |-> state] ELSE ApplyEntry(state, e)

RECURSIVE ReplayLines(_, _)
ReplayLines(lines, state) ==
    IF lines = <<>> THEN [ok |-> TRUE, state |-> state]
    ELSE IF Head(lines) = <<>> THEN ReplayLines(Tail(lines), state)  \* if not line: continue
    ELSE LET r == ApplyLine(state, Head(lines)) IN
         IF r.ok THEN ReplayLines(Tail(lines), r.state)
         ELSE [ok |-> FALSE, state |-> EmptyMap]

\* WriteAheadLog.replay(): ok with the dict it returns, or not ok when an
\* exception escapes it.
Replay(f) == ReplayLines(SplitLines(f, <<>>), EmptyMap)

\* ------------------------------------------------------------- state
VARIABLES
    file,       \* the tokens of the shard's log file
    \* a WriteAheadLog used on its own
    wreplay,    \* what the last replay() returned; "none" once the log was appended to
    wprev,      \* what the replay() before that returned, under the same condition
    wcalls,     \* history: how many append() calls were made
    wtorn,      \* history: how many of those appends a crash cut short
    wwhole,     \* history: the records of the appends that returned, in order
    wgood,      \* history: the records that stand whole on a terminated line of their own
    wtail,      \* history: what follows the last newline of the file
    wlines,     \* history: the lines the file held when the log was opened
    \* a StorageEngine and its callers
    store,      \* StorageEngine.store
    lock,       \* the holder of StorageEngine.lock, or None
    walLock,    \* the holder of WriteAheadLog.lock, or None
    closed,     \* StorageEngine._closed
    phase,      \* "new": constructed; "ready": initialize() returned; "failed": it raised
    pc,         \* where each caller is in its call
    arg,        \* the call each caller is in
    last,       \* the call that returned last, and what it returned
    nevents,    \* history: calls issued and crashes so far
    life,       \* history: the mutations of the shard over all engines, in lock order
    born,       \* history: Len(life) when initialize() of this engine returned
    base,       \* history: the map initialize() of this engine restored
    atLock,     \* history: the file and the map when the mutation under way took the lock
    prevStore,  \* history: the map of the engine before this one when it was closed
    \* an observer of the calls on one engine
    observed,   \* whether the calls on the engine are being recorded
    hist,       \* history: the calls that returned, in the order they returned
    seen,       \* history: how many calls had returned (on a manager: how many shard
                \* locks were held) when each caller issued its call
    order,      \* history: the put/delete calls that took the shard lock, in that order
    \* a ConsistentHashRing
    num_vnodes, \* ConsistentHashRing.num_vnodes
    ring,       \* ConsistentHashRing.ring: the positions, sorted
    ring_map,   \* ConsistentHashRing.ring_map: position -> node_id
    nodes,      \* ConsistentHashRing.nodes
    digest,     \* the position of every string hashed so far
    rlast,      \* the last call on the ring, and what it returned
    nring,      \* history: calls made on the ring
    \* a ShardManager
    mphase,     \* "none": no manager; "new": constructed; "initializing": inside
                \* initialize(); "ready": initialize() returned; "closed": close()
                \* returned and no call is made any more
    shard_ids,  \* ShardManager.shard_ids
    shards,     \* ShardManager.shards: shard_id -> the map and the log file of its engine
    mlast,      \* the last call on the manager, the shard it went to, what it returned
    mcalls,     \* history: calls made on the manager
    slock,      \* shard_id -> the holder of the lock of its engine, or None (concurrent callers)
    sclosed,    \* shard_id -> _closed of its engine (concurrent callers)
    data_dir    \* shard_id -> the log file of the shard in ShardManager.data_dir, for
                \* the files that no engine has open

walVars == <<wreplay, wprev, wcalls, wtorn, wwhole, wgood, wtail, wlines>>
engVars == <<store, lock, walLock, closed, phase, pc, arg, last>>
histVars == <<nevents, life, born, base, atLock, prevStore>>
obsVars == <<observed, hist, seen, order>>
ringVars == <<num_vnodes, ring, ring_map, nodes, digest, rlast, nring>>
mgrVars == <<mphase, shard_ids, shards, mlast, mcalls, slock, sclosed, data_dir>>
farVars == <<ringVars, mgrVars>>
vars == <<file, walVars, engVars, histVars, obsVars, farVars>>

NoResult == [at |-> "none"]
Returned(r) == [at |-> "done", ok |-> r.ok, state |-> r.state]

Rec(operation, key, value) == [op |-> operation, key |-> key, value |-> value]
Records == {Rec("PUT", k, v) : k \in Keys, v \in Values}
             \cup {Rec("DELETE", k, None) : k \in Keys}

CleanTail == [t |-> "clean"]
TornTail == [t |-> "torn"]
WholeTail(r) == [t |-> "whole", rec |-> r]

NoCall == [name |-> "none", key |-> None, value |-> None]
Call(name, key, value) == [name |-> name, key |-> key, value |-> value]
NoReturn == [call |-> NoCall, ret |-> None]
ReturnOf(c, v) == [call |-> c, ret |-> v]
NoSnapshot == [file |-> <<>>, store |-> EmptyMap]
NoEngineBefore == [at |-> "none"]
ClosedWith(m) == [at |-> "closed", state |-> m]

\* The fold the log stands for: the last record of a key decides it.
LastOn(recs, k) ==
    LET S == {i \in 1..Len(recs) : recs[i].key = k}
    IN  IF S = {} THEN 0 ELSE CHOOSE i \in S : \A j \in S : j <= i
Folded(recs) ==
    LET live == {k \in {recs[i].key : i \in 1..Len(recs)} :
                    recs[LastOn(recs, k)].op = "PUT"}
    IN  [k \in live |-> recs[LastOn(recs, k)].value]

\* ------------------------------------------------------------- WriteAheadLog
\* StorageEngine.__init__ on its own: nothing is running yet.
EngineNew ==
    /\ store = EmptyMap /\ lock = None /\ walLock = None /\ closed = FALSE
    /\ phase = "new"
    /\ pc = [t \in Tasks |-> "idle"]
    /\ arg = [t \in Tasks |-> NoCall]
    /\ last = NoReturn
    /\ nevents = 0 /\ life = <<>> /\ born = 0 /\ base = EmptyMap
    /\ atLock = NoSnapshot /\ prevStore = NoEngineBefore

\* Nobody records the calls.
Unobserved ==
    /\ observed = FALSE /\ hist = <<>> /\ seen = [t \in Tasks |-> 0] /\ order = <<>>

\* No ring and no manager has been constructed.
NoRingCall == [name |-> "none", arg |-> None, known |-> FALSE, ret |-> None]
NoManagerCall == [name |-> "none", key |-> None, value |-> None, shard |-> None, ret |-> None]
NoRing ==
    /\ num_vnodes = 0 /\ ring = <<>> /\ ring_map = EmptyMap /\ nodes = {}
    /\ digest = EmptyMap /\ rlast = NoRingCall /\ nring = 0
NoManager ==
    /\ mphase = "none" /\ shard_ids = <<>> /\ shards = EmptyMap
    /\ mlast = NoManagerCall /\ mcalls = 0
    /\ slock = EmptyMap /\ sclosed = EmptyMap /\ data_dir = EmptyMap
NoCluster == NoRing /\ NoManager

\* WriteAheadLog.__init__ on a path with no file: the file is created empty.
WalNew ==
    /\ wreplay = NoResult /\ wprev = NoResult
    /\ wcalls = 0 /\ wtorn = 0
    /\ wwhole = <<>> /\ wgood = <<>> /\ wtail = CleanTail
    /\ wlines = <<>>

\* WriteAheadLog.append(): the line is written after whatever the file holds.
AppendedFile_Rewrite(f, operation, key, value) == RecordLine(operation, key, value)
AppendedFile(f, operation, key, value) == f \o RecordLine(operation, key, value)

\* A crash during the write of append(): the first n tokens of the line reached
\* the file, the newline did not.
TornFile(f, operation, key, value, n) ==
    f \o SubSeq(RecordLine(operation, key, value), 1, n)

WalInit == file = <<>> /\ WalNew /\ EngineNew /\ Unobserved /\ NoCluster

WalAppend(r) ==
    /\ wcalls < MaxAppends
    /\ file' = AppendedFile(file, r.op, r.key, r.value)
    /\ wcalls' = wcalls + 1
    /\ wwhole' = Append(wwhole, r)
    /\ wgood' = IF wtail = CleanTail THEN Append(wgood, r) ELSE wgood
    /\ wtail' = CleanTail
    /\ wreplay' = NoResult /\ wprev' = NoResult
    /\ UNCHANGED <<wtorn, wlines, engVars, histVars, obsVars, farVars>>

WalTornAppend(r, n) ==
    /\ wcalls < MaxAppends
    /\ wtorn < MaxTorn
    /\ file' = TornFile(file, r.op, r.key, r.value, n)
    /\ wcalls' = wcalls + 1
    /\ wtorn' = wtorn + 1
    /\ wtail' = IF n = 0 THEN wtail
               ELSE IF wtail = CleanTail /\ n = Len(Dumps(r.op, r.key, r.value))
               THEN WholeTail(r)
               ELSE TornTail
    /\ wreplay' = NoResult /\ wprev' = NoResult
    /\ UNCHANGED <<wwhole, wgood, wlines, engVars, histVars, obsVars, farVars>>

\* WriteAheadLog.replay() opens the file for reading only.
FileAfterReplay_Truncate(f) == <<>>
FileAfterReplay(f) == f

WalReplay ==
    /\ wreplay' = Returned(Replay(file))
    /\ wprev' = wreplay
    /\ file' = FileAfterReplay(file)
    /\ UNCHANGED <<wcalls, wtorn, wwhole, wgood, wtail, wlines, engVars, histVars, obsVars, farVars>>

WalNext ==
    \/ \E r \in Records : WalAppend(r)
    \/ \E r \in Records : \E n \in 0..Len(Dumps(r.op, r.key, r.value)) : WalTornAppend(r, n)
    \/ WalReplay

\* A WriteAheadLog on a fresh file: appends, appends cut short by a crash, replays.
SpecWal == WalInit /\ [][WalNext]_vars

\* ------------------------------------------------------------- replay of any file
NoRec == Rec("NONE", None, None)
Line(shape, r, toks) == [shape |-> shape, rec |-> r, toks |-> toks]
Obj(body) == <<LBRACE>> \o body \o <<RBRACE>>

\* The lines a file may hold when a log is opened on it (tests/unit/test_wal.py
\* writes such files): records, and bad lines of every kind.
OpenedLines ==
    {Line("rec", r, Dumps(r.op, r.key, r.value)) : r \in Records}
    \cup {Line("unparsable", NoRec, <<Bare("this is not valid JSON")>>),
          Line("unparsable", NoRec, <<LBRACE, Str("op"), Str("PUT"), Str("key")>>),
          Line("missing", NoRec, Obj(<<Str("op"), Str("PUT"), Str("value"), Str("2")>>)),
          Line("missing", NoRec, Obj(<<Str("op"), Str("PUT"), Str("key"), Str("a")>>)),
          Line("missing", NoRec, Obj(<<Str("op"), Str("DELETE"), Str("ts"), Timestamp>>)),
          Line("unknown", NoRec, Obj(<<Str("op"), Str("MERGE"), Str("key"), Str("a"),
                                       Str("value"), Str("2")>>)),
          Line("notdict", NoRec, <<Num("42")>>),
          Line("notdict", NoRec, <<LBRACK, Str("a"), RBRACK>>),
          Line("blank", NoRec, <<>>)}

RECURSIVE Render(_)
Render(ls) == IF ls = <<>> THEN <<>> ELSE Head(ls).toks \o <<NL>> \o Render(Tail(ls))

RECURSIVE SeqsUpTo(_, _)
SeqsUpTo(S, n) ==
    IF n = 0 THEN {<<>>}
    ELSE LET shorter == SeqsUpTo(S, n - 1)
         IN  shorter \cup {Append(q, x) : q \in shorter, x \in S}

ReplayInit ==
    /\ wlines \in SeqsUpTo(OpenedLines, MaxLines)
    /\ file = Render(wlines)
    /\ wreplay = NoResult /\ wprev = NoResult
    /\ wcalls = 0 /\ wtorn = 0
    /\ wwhole = <<>> /\ wgood = <<>> /\ wtail = CleanTail
    /\ EngineNew /\ Unobserved /\ NoCluster

\* A WriteAheadLog opened on a file that already holds lines, and replayed.
SpecReplay == ReplayInit /\ [][WalReplay]_vars

RecordsIn(ls) ==
    LET idx == {i \in 1..Len(ls) : ls[i].shape = "rec"}
        RECURSIVE pick(_)
        pick(i) == IF i > Len(ls) THEN <<>>
                   ELSE (IF i \in idx THEN <<ls[i].rec>> ELSE <<>>) \o pick(i + 1)
    IN  pick(1)

\* ------------------------------------------------------------- claims on the log

\* C4: replay() returns the fold of the appended records, in append order, over
\* an empty map: a PUT upserts, a DELETE removes (a no-op on an absent key), a
\* later PUT of a key overwrites an earlier one.
C4_ReplayIsFold ==
    (wreplay.at = "done" /\ wtorn = 0) =>
        (wreplay.ok /\ wreplay.state = Folded(wwhole))

C4_Witness ==
    /\ wreplay.at = "done" /\ wtorn = 0 /\ wreplay.ok
    /\ Len(wwhole) = 2
    /\ wwhole[1].op = "PUT" /\ wwhole[2].op = "PUT"
    /\ wwhole[1].key = wwhole[2].key /\ wwhole[1].value # wwhole[2].value

\* C5: replay() is read-only and idempotent: it leaves the file as it was, and
\* a second replay() with no append in between returns what the first returned.
C5_ReplayReadOnly ==
    [][(wreplay'.at = "done" /\ wcalls' = wcalls) =>
          /\ file' = file
          /\ (wreplay.at = "done" => wreplay' = wreplay)]_vars

C5_Witness ==
    /\ wreplay.at = "done" /\ wprev.at = "done" /\ wreplay = wprev
    /\ wreplay.ok /\ wreplay.state # EmptyMap

\* C6: a line that fails to parse, a record without its key or (for PUT) its
\* value, and a record with an unknown operation are skipped and change nothing;
\* every record before and after them is applied, in order.
C6_BadLinesSkipped ==
    (wreplay.at = "done" /\ \A i \in 1..Len(wlines) : wlines[i].shape # "notdict") =>
        (wreplay.ok /\ wreplay.state = Folded(RecordsIn(wlines)))

C6_Witness ==
    /\ wreplay.at = "done" /\ wreplay.ok
    /\ Len(wlines) = 3
    /\ wlines[1].shape = "rec" /\ wlines[1].rec.op = "PUT"
    /\ wlines[2].shape \in {"unparsable", "missing", "unknown"}
    /\ wlines[3].shape = "rec" /\ wlines[3].rec.op = "PUT"
    /\ wlines[1].rec.key # wlines[3].rec.key
    /\ DOMAIN wreplay.state = Keys

\* C7: replay() returns a map for every content of the file; no error escapes.
C7_ReplayNeverAborts == wreplay.at = "done" => wreplay.ok

\* C8: a partial record left at the end of the file by a crash during append()
\* is skipped by the next replay(), which completes and returns the state of
\* the records that stand whole in the file.
C8_TornTailSkipped ==
    (wreplay.at = "done" /\ wtail = TornTail) =>
        (wreplay.ok /\ wreplay.state = Folded(wgood))

C8_Witness ==
    /\ wreplay.at = "done" /\ wtail = TornTail
    /\ wreplay.ok /\ wreplay.state # EmptyMap

\* ------------------------------------------------------------- StorageEngine
RecordOf(c) ==
    IF c.name = "put" THEN Rec("PUT", c.key, c.value) ELSE Rec("DELETE", c.key, None)
LineOf(c) == RecordLine(RecordOf(c).op, c.key, RecordOf(c).value)
Event(c, sure) ==
    [op |-> RecordOf(c).op, key |-> c.key, value |-> RecordOf(c).value, sure |-> sure]
Snapshot == [file |-> file, store |-> store]
Crashed == [at |-> "crashed"]

\* What the observer notes when the call c of t takes the shard lock to write,
\* when its record is in the file, and when t leaves the call without a result.
Locked(t, c) == [by |-> t, call |-> c, wrote |-> FALSE, left |-> FALSE]
LastBy(t) ==
    LET S == {i \in 1..Len(order) : order[i].by = t}
    IN  IF S = {} THEN 0 ELSE CHOOSE i \in S : \A j \in S : j <= i
Noted(t, wrote, left) ==
    IF observed /\ LastBy(t) > 0
    THEN [order EXCEPT ![LastBy(t)] =
             [@ EXCEPT !.wrote = @ \/ wrote, !.left = @ \/ left]]
    ELSE order
Completed(c, v, n) == [call |-> c, ret |-> v, after |-> n]

\* StorageEngine.__init__ on a path with no file.
Init == file = <<>> /\ WalNew /\ EngineNew /\ Unobserved /\ NoCluster

\* StorageEngine.initialize(): self.store = await self.wal.replay()
Initialize ==
    /\ phase = "new"
    /\ LET r == Replay(file) IN
         IF r.ok
         THEN store' = r.state /\ base' = r.state /\ phase' = "ready"
         ELSE phase' = "failed" /\ UNCHANGED <<store, base>>
    /\ born' = Len(life)
    /\ UNCHANGED <<file, walVars, farVars, lock, walLock, closed, pc, arg, last,
                   nevents, life, atLock, prevStore, obsVars>>

\* A caller may start a call on an engine that is initialized and that nobody
\* has closed.
Accepting(t) == phase = "ready" /\ ~closed /\ pc[t] = "idle"

Invoke(t, c) ==
    /\ nevents < (IF observed THEN MaxCalls ELSE MaxEvents)
    /\ nevents' = nevents + 1
    /\ pc' = [pc EXCEPT ![t] = "lock"]
    /\ arg' = [arg EXCEPT ![t] = c]
    /\ seen' = IF observed THEN [seen EXCEPT ![t] = Len(hist)] ELSE seen
    /\ UNCHANGED <<file, walVars, farVars, store, lock, walLock, closed, phase, last,
                   life, born, base, atLock, prevStore, observed, hist, order>>

CallPut(t, k, v) == Accepting(t) /\ Invoke(t, Call("put", k, v))
CallDelete(t, k) == Accepting(t) /\ Invoke(t, Call("delete", k, None))
CallGet(t, k) == Accepting(t) /\ Invoke(t, Call("get", k, None))
CallExists(t, k) == Accepting(t) /\ Invoke(t, Call("exists", k, None))
CallSize(t) == Accepting(t) /\ Invoke(t, Call("size", None, None))

\* The call of t returns v.
Return(t, v) ==
    /\ pc' = [pc EXCEPT ![t] = "idle"]
    /\ arg' = [arg EXCEPT ![t] = NoCall]
    /\ last' = ReturnOf(arg[t], v)
    /\ hist' = IF observed THEN Append(hist, Completed(arg[t], v, seen[t])) ELSE hist
    /\ UNCHANGED <<observed, seen>>

\* put(): async with self.lock
PutLock_StoreFirst(t) ==
    /\ pc[t] = "lock" /\ arg[t].name = "put" /\ lock = None
    /\ lock' = t
    /\ pc' = [pc EXCEPT ![t] = "append"]
    /\ atLock' = Snapshot
    /\ store' = MapPut(store, arg[t].key, arg[t].value)
    /\ order' = IF observed THEN Append(order, Locked(t, arg[t])) ELSE order
    /\ UNCHANGED <<file, walVars, farVars, walLock, closed, phase, arg, last,
                   nevents, life, born, base, prevStore, observed, hist, seen>>
PutLock_Unlocked(t) ==
    /\ pc[t] = "lock" /\ arg[t].name = "put"
    /\ pc' = [pc EXCEPT ![t] = "append"]
    /\ atLock' = Snapshot
    /\ order' = IF observed THEN Append(order, Locked(t, arg[t])) ELSE order
    /\ UNCHANGED <<file, walVars, farVars, store, lock, walLock, closed, phase, arg, last,
                   nevents, life, born, base, prevStore, observed, hist, seen>>
PutLock(t) ==
    /\ pc[t] = "lock" /\ arg[t].name = "put" /\ lock = None
    /\ lock' = t
    /\ pc' = [pc EXCEPT ![t] = "append"]
    /\ atLock' = Snapshot
    /\ order' = IF observed THEN Append(order, Locked(t, arg[t])) ELSE order
    /\ UNCHANGED <<file, walVars, farVars, store, walLock, closed, phase, arg, last,
                   nevents, life, born, base, prevStore, observed, hist, seen>>

\* delete(): async with self.lock; if key not in self.store: return False
DeleteLock_NoCheck(t) ==
    /\ pc[t] = "lock" /\ arg[t].name = "delete" /\ lock = None
    /\ pc' = [pc EXCEPT ![t] = "append"]
    /\ lock' = t
    /\ atLock' = Snapshot
    /\ order' = IF observed THEN Append(order, Locked(t, arg[t])) ELSE order
    /\ UNCHANGED <<file, walVars, farVars, store, walLock, closed, phase, arg, last,
                   nevents, life, born, base, prevStore, observed, hist, seen>>
DeleteLock(t) ==
    /\ pc[t] = "lock" /\ arg[t].name = "delete" /\ lock = None
    /\ IF arg[t].key \notin DOMAIN store
       THEN /\ Return(t, FALSE)
            /\ UNCHANGED <<lock, atLock, order>>
       ELSE /\ pc' = [pc EXCEPT ![t] = "append"]
            /\ lock' = t
            /\ atLock' = Snapshot
            /\ order' = IF observed THEN Append(order, Locked(t, arg[t])) ELSE order
            /\ UNCHANGED <<arg, last, observed, hist, seen>>
    /\ UNCHANGED <<file, walVars, farVars, store, walLock, closed, phase,
                   nevents, life, born, base, prevStore>>

\* get(), exists(), size(): async with self.lock
ReadLock_Unlocked(t) ==
    /\ pc[t] = "lock" /\ arg[t].name \in {"get", "exists", "size"}
    /\ pc' = [pc EXCEPT ![t] = "read"]
    /\ UNCHANGED <<file, walVars, farVars, store, lock, walLock, closed, phase, arg, last,
                   histVars, obsVars>>
ReadLock(t) ==
    /\ pc[t] = "lock" /\ arg[t].name \in {"get", "exists", "size"} /\ lock = None
    /\ lock' = t
    /\ pc' = [pc EXCEPT ![t] = "read"]
    /\ UNCHANGED <<file, walVars, farVars, store, walLock, closed, phase, arg, last,
                   histVars, obsVars>>

AppendLock_NoWait(t) ==
    /\ pc[t] = "append"
    /\ walLock' = t
    /\ pc' = [pc EXCEPT ![t] = "write"]
    /\ UNCHANGED <<file, walVars, farVars, store, lock, closed, phase, arg, last,
                   histVars, obsVars>>
\* append(): async with self.lock (the log's own lock)
AppendLock(t) ==
    /\ pc[t] = "append" /\ walLock = None
    /\ walLock' = t
    /\ pc' = [pc EXCEPT ![t] = "write"]
    /\ UNCHANGED <<file, walVars, farVars, store, lock, closed, phase, arg, last,
                   histVars, obsVars>>

\* append(): the line is written and the file closed; append() returns.
AppendWrite(t) ==
    /\ pc[t] = "write"
    /\ file' = AppendedFile(file, RecordOf(arg[t]).op, arg[t].key, RecordOf(arg[t]).value)
    /\ walLock' = None
    /\ pc' = [pc EXCEPT ![t] = "store"]
    /\ order' = Noted(t, TRUE, FALSE)
    /\ UNCHANGED <<walVars, farVars, store, lock, closed, phase, arg, last, histVars,
                   observed, hist, seen>>

\* put(): self.store[key] = value, the lock is released, put() returns.
PutStore(t) ==
    /\ pc[t] = "store" /\ arg[t].name = "put"
    /\ store' = MapPut(store, arg[t].key, arg[t].value)
    /\ lock' = None
    /\ Return(t, None)
    /\ life' = Append(life, Event(arg[t], TRUE))
    /\ atLock' = NoSnapshot
    /\ UNCHANGED <<file, walVars, farVars, walLock, closed, phase,
                   nevents, born, base, prevStore, order>>

\* delete(): del self.store[key], the lock is released, delete() returns True.
DeleteStore(t) ==
    /\ pc[t] = "store" /\ arg[t].name = "delete"
    /\ store' = MapPop(store, arg[t].key)
    /\ lock' = None
    /\ Return(t, TRUE)
    /\ life' = Append(life, Event(arg[t], TRUE))
    /\ atLock' = NoSnapshot
    /\ UNCHANGED <<file, walVars, farVars, walLock, closed, phase,
                   nevents, born, base, prevStore, order>>

\* What get(), exists() and size() return on the map m.
ReadResult(m, c) ==
    IF c.name = "get" THEN MapGet(m, c.key)
    ELSE IF c.name = "exists" THEN c.key \in DOMAIN m
    ELSE MapLen(m)

Read_First(t) ==
    /\ pc[t] = "read"
    /\ Return(t, ReadResult(base, arg[t]))
    /\ lock' = None
    /\ UNCHANGED <<file, walVars, farVars, store, walLock, closed, phase, histVars, order>>
Read(t) ==
    /\ pc[t] = "read"
    /\ Return(t, ReadResult(store, arg[t]))
    /\ lock' = None
    /\ UNCHANGED <<file, walVars, farVars, store, walLock, closed, phase, histVars, order>>

\* close(): if self._closed: return; async with self.lock: self._closed = True
Close ==
    /\ phase = "ready" /\ ~closed /\ lock = None
    /\ closed' = TRUE
    /\ UNCHANGED <<file, walVars, farVars, store, lock, walLock, phase, pc, arg, last,
                   histVars, obsVars>>

\* A new StorageEngine is constructed on the path of the closed one.
Reopen ==
    /\ closed /\ \A t \in Tasks : pc[t] = "idle"
    /\ prevStore' = ClosedWith(store)
    /\ store' = EmptyMap /\ closed' = FALSE /\ phase' = "new"
    /\ last' = NoReturn
    /\ atLock' = NoSnapshot
    /\ UNCHANGED <<file, walVars, farVars, lock, walLock, pc, arg, nevents, life, born,
                   base, obsVars>>

\* The process dies and a new one constructs the engine on the same path.
Restarted ==
    /\ nevents < MaxEvents
    /\ nevents' = nevents + 1
    /\ store' = EmptyMap /\ lock' = None /\ walLock' = None /\ closed' = FALSE
    /\ phase' = "new"
    /\ pc' = [t \in Tasks |-> "idle"]
    /\ arg' = [t \in Tasks |-> NoCall]
    /\ last' = NoReturn
    /\ atLock' = NoSnapshot /\ prevStore' = Crashed
    /\ UNCHANGED <<walVars, farVars, born, base, obsVars>>

\* A crash while no write of append() is under way.  A mutation whose record
\* is written and whose call has not returned may or may not count.
Crash ==
    /\ \A t \in Tasks : pc[t] # "write"
    /\ UNCHANGED file
    /\ life' = IF \E t \in Tasks : pc[t] = "store"
               THEN Append(life, Event(arg[CHOOSE t \in Tasks : pc[t] = "store"], FALSE))
               ELSE life
    /\ Restarted

\* A crash during the write of append(): n tokens of the line reached the file,
\* the newline did not.
CrashInWrite(t, n) ==
    /\ pc[t] = "write"
    /\ n < Len(LineOf(arg[t]))
    /\ file' = TornFile(file, RecordOf(arg[t]).op, arg[t].key, RecordOf(arg[t]).value, n)
    /\ life' = Append(life, Event(arg[t], FALSE))
    /\ Restarted

Next ==
    \/ Initialize
    \/ \E t \in Tasks, k \in Keys, v \in Values : CallPut(t, k, v)
    \/ \E t \in Tasks, k \in Keys : CallDelete(t, k)
    \/ \E t \in Tasks, k \in Keys : CallGet(t, k)
    \/ \E t \in Tasks, k \in Keys : CallExists(t, k)
    \/ \E t \in Tasks : CallSize(t)
    \/ \E t \in Tasks : PutLock(t)
    \/ \E t \in Tasks : DeleteLock(t)
    \/ \E t \in Tasks : ReadLock(t)
    \/ \E t \in Tasks : AppendLock(t)
    \/ \E t \in Tasks : AppendWrite(t)
    \/ \E t \in Tasks : PutStore(t)
    \/ \E t \in Tasks : DeleteStore(t)
    \/ \E t \in Tasks : Read(t)
    \/ Close
    \/ Reopen
    \/ Crash
    \/ \E t \in Tasks : \E n \in 1..Len(RecordLine("PUT", "a", "1")) : CrashInWrite(t, n)

\* One StorageEngine at a time on one log file, with concurrent callers,
\* crashes and restarts.
Spec == Init /\ [][Next]_vars

\* ------------------------------------------------------------- concurrent callers
\* The caller of a put() or delete() abandons it: the task is cancelled where
\* it waits.  Waiting for either lock, nothing of the call has happened.
\* Inside append()'s "async with aiofiles.open(...)", the cancellation arrives
\* either before the line is written (written = FALSE) or while the file is
\* being closed after f.write(line) (written = TRUE); the CancelledError leaves
\* append() and put()/delete(), both locks are released on the way out, and
\* the statement after "await self.wal.append(...)" is not run.
Abandon(t, written) ==
    /\ pc[t] \in {"lock", "append", "write"}
    /\ arg[t].name \in {"put", "delete"}
    /\ written => pc[t] = "write"
    /\ file' = IF written
               THEN AppendedFile(file, RecordOf(arg[t]).op, arg[t].key, RecordOf(arg[t]).value)
               ELSE file
    /\ walLock' = IF walLock = t THEN None ELSE walLock
    /\ lock' = IF lock = t THEN None ELSE lock
    /\ pc' = [pc EXCEPT ![t] = "idle"]
    /\ arg' = [arg EXCEPT ![t] = NoCall]
    /\ atLock' = IF lock = t THEN NoSnapshot ELSE atLock
    /\ order' = IF lock = t THEN Noted(t, written, TRUE) ELSE order
    /\ UNCHANGED <<walVars, farVars, store, closed, phase, last,
                   nevents, life, born, base, prevStore, observed, hist, seen>>

\* An engine on a fresh log whose calls are recorded.
ObservedInit ==
    /\ file = <<>> /\ WalNew /\ EngineNew
    /\ observed = TRUE /\ hist = <<>> /\ seen = [t \in Tasks |-> 0] /\ order = <<>>
    /\ NoCluster

ObservedNext ==
    \/ Initialize
    \/ \E t \in Tasks, k \in Keys, v \in Values : CallPut(t, k, v)
    \/ \E t \in Tasks, k \in Keys : CallDelete(t, k)
    \/ \E t \in Tasks, k \in Keys : CallGet(t, k)
    \/ \E t \in Tasks, k \in Keys : CallExists(t, k)
    \/ \E t \in Tasks : CallSize(t)
    \/ \E t \in Tasks : PutLock(t)
    \/ \E t \in Tasks : DeleteLock(t)
    \/ \E t \in Tasks : ReadLock(t)
    \/ \E t \in Tasks : AppendLock(t)
    \/ \E t \in Tasks : AppendWrite(t)
    \/ \E t \in Tasks : PutStore(t)
    \/ \E t \in Tasks : DeleteStore(t)
    \/ \E t \in Tasks : Read(t)
    \/ \E t \in Tasks, written \in BOOLEAN : Abandon(t, written)

\* One StorageEngine with concurrent callers, some of whom abandon their call.
SpecCallers == ObservedInit /\ [][ObservedNext]_vars

\* ------------------------------------------------------------- concurrent appenders
\* Callers of append() on one WriteAheadLog, with no engine in between.
\* append(operation, key, value) is called: the caller waits for the log's lock.
Appending(r, n) ==
    [name |-> IF r.op = "PUT" THEN "put" ELSE "delete",
     key |-> r.key, value |-> r.value, done |-> n]
AppendCall(t, r) ==
    /\ pc[t] = "idle"
    /\ wcalls < MaxAppends
    /\ wcalls' = wcalls + 1
    /\ pc' = [pc EXCEPT ![t] = "append"]
    /\ arg' = [arg EXCEPT ![t] = Appending(r, 0)]
    /\ UNCHANGED <<file, wreplay, wprev, wtorn, wwhole, wgood, wtail, wlines, farVars,
                   store, lock, walLock, closed, phase, last, histVars, obsVars>>

\* append(): await f.write(line).  The line goes to the file object; the
\* first n tokens of it are flushed to the file now, the rest when the file
\* is closed.
AppendWriteSome(t, n) ==
    /\ pc[t] = "write" /\ "done" \in DOMAIN arg[t]
    /\ n \in 0..Len(LineOf(arg[t]))
    /\ file' = file \o SubSeq(LineOf(arg[t]), 1, n)
    /\ arg' = [arg EXCEPT ![t] = Appending(RecordOf(arg[t]), n)]
    /\ pc' = [pc EXCEPT ![t] = "close"]
    /\ UNCHANGED <<walVars, farVars, store, lock, walLock, closed, phase, last,
                   histVars, obsVars>>

\* append(): the file is closed, which flushes the rest of the line; the
\* log's lock is released and append() returns.
AppendClose(t) ==
    /\ pc[t] = "close"
    /\ file' = file \o SubSeq(LineOf(arg[t]), arg[t].done + 1, Len(LineOf(arg[t])))
    /\ walLock' = IF walLock = t THEN None ELSE walLock
    /\ wwhole' = Append(wwhole, RecordOf(arg[t]))
    /\ pc' = [pc EXCEPT ![t] = "idle"]
    /\ arg' = [arg EXCEPT ![t] = NoCall]
    /\ UNCHANGED <<wreplay, wprev, wcalls, wtorn, wgood, wtail, wlines, farVars,
                   store, lock, closed, phase, last, histVars, obsVars>>

AppendersNext ==
    \/ \E t \in Tasks, r \in Records : AppendCall(t, r)
    \/ \E t \in Tasks : AppendLock(t)
    \/ \E t \in Tasks : \E n \in 0..Len(RecordLine("PUT", "a", "1")) : AppendWriteSome(t, n)
    \/ \E t \in Tasks : AppendClose(t)

\* One WriteAheadLog on a fresh file with concurrent callers of append().
SpecAppenders == WalInit /\ [][AppendersNext]_vars
\* ------------------------------------------------------------- failing appends
\* wal.append() raises inside "async with aiofiles.open(...)": open() fails
\* (n = 0), or the write or the flush at the close of the file fails after n
\* tokens of the line reached the file.  The exception leaves the two "async
\* with self.lock" blocks, of the log and of the engine, and put()/delete();
\* the statement after "await self.wal.append(...)" is not run.
OSError == "OSError"
\* How much of the line is in the file after a failure: nothing, a part of it
\* (its first token stands for every proper part), or all of it.
WrittenAtFailure(line) == {0, 1, Len(line)}
AppendFail_KeepLock(t, n) ==
    /\ pc[t] = "write"
    /\ n \in WrittenAtFailure(LineOf(arg[t]))
    /\ file' = file \o SubSeq(LineOf(arg[t]), 1, n)
    /\ walLock' = None
    /\ Return(t, OSError)
    /\ life' = Append(life, Event(arg[t], FALSE))
    /\ atLock' = NoSnapshot
    /\ UNCHANGED <<walVars, farVars, store, lock, closed, phase,
                   nevents, born, base, prevStore, order>>
AppendFail(t, n) ==
    /\ pc[t] = "write"
    /\ n \in WrittenAtFailure(LineOf(arg[t]))
    /\ file' = file \o SubSeq(LineOf(arg[t]), 1, n)
    /\ walLock' = None
    /\ lock' = None
    /\ Return(t, OSError)
    /\ life' = Append(life, Event(arg[t], FALSE))
    /\ atLock' = NoSnapshot
    /\ UNCHANGED <<walVars, farVars, store, closed, phase,
                   nevents, born, base, prevStore, order>>

FailingNext ==
    \/ Initialize
    \/ \E t \in Tasks, k \in Keys, v \in Values : CallPut(t, k, v)
    \/ \E t \in Tasks, k \in Keys : CallDelete(t, k)
    \/ \E t \in Tasks, k \in Keys : CallGet(t, k)
    \/ \E t \in Tasks, k \in Keys : CallExists(t, k)
    \/ \E t \in Tasks : CallSize(t)
    \/ \E t \in Tasks : PutLock(t)
    \/ \E t \in Tasks : DeleteLock(t)
    \/ \E t \in Tasks : ReadLock(t)
    \/ \E t \in Tasks : AppendLock(t)
    \/ \E t \in Tasks : AppendWrite(t)
    \/ \E t \in Tasks : PutStore(t)
    \/ \E t \in Tasks : DeleteStore(t)
    \/ \E t \in Tasks : Read(t)
    \/ \E t \in Tasks : \E n \in 0..Len(RecordLine("PUT", "a", "1")) : AppendFail(t, n)

\* One StorageEngine on a fresh log with concurrent callers, whose appends
\* may fail.
SpecFailing == Init /\ [][FailingNext]_vars
\* ------------------------------------------------------------- progress of concurrent callers
\* A call on an initialized engine, whether or not close() has been called on
\* it: no operation reads self._closed but close().
CallOn(t, c) == phase = "ready" /\ pc[t] = "idle" /\ Invoke(t, c)
KeyCalls ==
    {Call("put", k, v) : k \in Keys, v \in Values}
        \cup {Call(name, k, None) : name \in {"delete", "get", "exists"}, k \in Keys}
        \cup {Call("size", None, None)}

\* close() on an engine that is not marked closed: it goes on to
\* "async with self.lock".
CallClose(t) == ~closed /\ CallOn(t, Call("close", None, None))

\* close() on an engine that is marked closed: "if self._closed: return".
CallCloseAgain(t) ==
    /\ phase = "ready" /\ pc[t] = "idle" /\ closed
    /\ nevents < MaxEvents
    /\ nevents' = nevents + 1
    /\ last' = ReturnOf(Call("close", None, None), None)
    /\ UNCHANGED <<file, walVars, farVars, store, lock, walLock, closed, phase, pc, arg,
                   life, born, base, atLock, prevStore, obsVars>>

\* close(): the lock is taken, await self.wal.close() returns without
\* waiting, self._closed = True, the lock is released and close() returns.
CloseLock_Held(t) ==
    /\ pc[t] = "lock" /\ arg[t].name = "close" /\ lock = None
    /\ closed' = TRUE
    /\ lock' = t
    /\ Return(t, None)
    /\ UNCHANGED <<file, walVars, farVars, store, walLock, phase, histVars, order>>
CloseLock(t) ==
    /\ pc[t] = "lock" /\ arg[t].name = "close" /\ lock = None
    /\ closed' = TRUE
    /\ Return(t, None)
    /\ UNCHANGED <<file, walVars, farVars, store, lock, walLock, phase, histVars, order>>

\* The steps of the call of t, from its lock to its return.
Step(t) ==
    \/ PutLock(t) \/ DeleteLock(t) \/ ReadLock(t) \/ CloseLock(t)
    \/ AppendLock(t) \/ AppendWrite(t)
    \/ PutStore(t) \/ DeleteStore(t) \/ Read(t)

ProgressNext ==
    \/ Initialize
    \/ \E t \in Tasks, c \in KeyCalls : CallOn(t, c)
    \/ \E t \in Tasks : CallClose(t)
    \/ \E t \in Tasks : CallCloseAgain(t)
    \/ \E t \in Tasks : Step(t)

\* One StorageEngine on a fresh log with concurrent callers.  The event loop
\* runs every task that can run, and a file write that has begun completes.
SpecProgress ==
    Init /\ [][ProgressNext]_vars /\ \A t \in Tasks : WF_vars(Step(t))
\* ------------------------------------------------------------- ConsistentHashRing
\* f"{node_id}:{vnode_idx}"
VnodeKey(n, i) == n \o ":" \o ToString(i)
VnodeKeys(n, v) == {VnodeKey(n, i) : i \in 0..(v - 1)}

\* _hash(): the first 64 bits of the SHA-256 digest of the string, a position
\* in [0, 2^64).  Which position a string has is fixed but not known here: it
\* is chosen when the string is first hashed and is the same ever after.
\* Nothing keeps two strings from having the same position.
Hashed(d, S) ==
    {[x \in (DOMAIN d) \cup S |-> IF x \in DOMAIN d THEN d[x] ELSE g[x]] :
        g \in [S \ DOMAIN d -> Positions]}

\* bisect.bisect_right(ring, x): the entries that are <= x come before it.
BisectRight_Left(r, x) == Cardinality({i \in 1..Len(r) : r[i] < x})
BisectRight(r, x) == Cardinality({i \in 1..Len(r) : r[i] <= x})
\* bisect.insort(ring, position)
Insort_AtEnd(r, x) == Append(r, x)
Insort(r, x) ==
    SubSeq(r, 1, BisectRight(r, x)) \o <<x>> \o SubSeq(r, BisectRight(r, x) + 1, Len(r))
\* list.remove(position): the first entry equal to position goes.
ListRemove(r, x) ==
    LET i == CHOOSE i \in 1..Len(r) : r[i] = x /\ \A j \in 1..(i - 1) : r[j] # x
    IN  SubSeq(r, 1, i - 1) \o SubSeq(r, i + 1, Len(r))

RingOf(r, m, ns) == [ring |-> r, ring_map |-> m, nodes |-> ns]
NewRing == RingOf(<<>>, EmptyMap, {})

\* add_node(): for vnode_idx in range(self.num_vnodes), from index i on.
RECURSIVE AddVnodes(_, _, _, _, _)
AddVnodes(s, d, n, i, v) ==
    IF i >= v THEN s
    ELSE AddVnodes(RingOf(Insort(s.ring, d[VnodeKey(n, i)]),
                          MapPut(s.ring_map, d[VnodeKey(n, i)], n),
                          s.nodes),
                   d, n, i + 1, v)

\* add_node(node_id) on the ring s, with the positions d and v vnodes a node.
AfterAddNode_Again(s, d, n, v) ==
    AddVnodes(RingOf(s.ring, s.ring_map, s.nodes \cup {n}), d, n, 0, v)
AfterAddNode(s, d, n, v) ==
    IF n \in s.nodes THEN s
    ELSE AddVnodes(RingOf(s.ring, s.ring_map, s.nodes \cup {n}), d, n, 0, v)

\* remove_node(): positions_to_remove
PositionsOf_Any(m, n) == DOMAIN m
PositionsOf(m, n) == {p \in DOMAIN m : m[p] = n}

\* remove_node(): for position in positions_to_remove
RECURSIVE RemoveVnodes(_, _)
RemoveVnodes(s, ps) ==
    IF ps = {} THEN s
    ELSE LET p == CHOOSE p \in ps : TRUE
         IN  RemoveVnodes(RingOf(ListRemove(s.ring, p), MapPop(s.ring_map, p), s.nodes),
                          ps \ {p})

\* remove_node(node_id) on the ring s.
AfterRemoveNode(s, n) ==
    IF n \notin s.nodes THEN s
    ELSE RemoveVnodes(RingOf(s.ring, s.ring_map, s.nodes \ {n}),
                      PositionsOf(s.ring_map, n))

\* get_node() of a key whose position is h: the node, None on an empty ring,
\* or the KeyError of self.ring_map[ring_position].
KeyError == "KeyError"
Lookup(s, h) ==
    IF s.ring = <<>> THEN None
    ELSE LET idx == IF BisectRight(s.ring, h) = Len(s.ring)
                    THEN 0 ELSE BisectRight(s.ring, h)
         IN  IF s.ring[idx + 1] \in DOMAIN s.ring_map
             THEN s.ring_map[s.ring[idx + 1]] ELSE KeyError

\* get_distribution()
Distribution(s) ==
    [n \in s.nodes |-> Cardinality({p \in DOMAIN s.ring_map : s.ring_map[p] = n})]

TheRing == RingOf(ring, ring_map, nodes)
\* A call on the ring: its argument, whether the node was registered (the ring
\* non-empty, for get_node) when it was made, and what it returned.
RingCall(name, a, known, r) == [name |-> name, arg |-> a, known |-> known, ret |-> r]

\* ConsistentHashRing.__init__
RingInit ==
    /\ file = <<>> /\ WalNew /\ EngineNew /\ Unobserved /\ NoManager
    /\ num_vnodes \in VnodeCounts
    /\ ring = <<>> /\ ring_map = EmptyMap /\ nodes = {}
    /\ digest = EmptyMap
    /\ rlast = NoRingCall /\ nring = 0

RingCalled(c, s) ==
    /\ nring < MaxRingCalls
    /\ nring' = nring + 1
    /\ rlast' = c
    /\ ring' = s.ring /\ ring_map' = s.ring_map /\ nodes' = s.nodes
    /\ UNCHANGED <<file, walVars, engVars, histVars, obsVars, mgrVars, num_vnodes>>

add_node(n) ==
    \E d \in Hashed(digest, IF n \in nodes THEN {} ELSE VnodeKeys(n, num_vnodes)) :
        /\ digest' = d
        /\ RingCalled(RingCall("add_node", n, n \in nodes, None), AfterAddNode(TheRing, d, n, num_vnodes))

remove_node(n) ==
    /\ RingCalled(RingCall("remove_node", n, n \in nodes, None), AfterRemoveNode(TheRing, n))
    /\ UNCHANGED digest

get_node(k) ==
    \E d \in Hashed(digest, IF ring = <<>> THEN {} ELSE {k}) :
        /\ digest' = d
        /\ RingCalled(RingCall("get_node", k, ring # <<>>,
                               IF ring = <<>> THEN None ELSE Lookup(TheRing, d[k])),
                      TheRing)

RingNext ==
    \/ \E n \in Nodes : add_node(n)
    \/ \E n \in Nodes : remove_node(n)
    \/ \E k \in Keys : get_node(k)

\* One ConsistentHashRing and the calls made on it.
SpecRing == RingInit /\ [][RingNext]_vars

\* ------------------------------------------------------------- ShardManager
Shard(m, f) == [store |-> m, file |-> f]
ManagerCall(name, k, v, sid, r) ==
    [name |-> name, key |-> k, value |-> v, shard |-> sid, ret |-> r]

\* The lists of shard ids a manager is constructed with.
ShardLists ==
    {q \in SeqsUpTo(ShardIds, MaxShards) :
        q # <<>> /\ \A i, j \in 1..Len(q) : i # j => q[i] # q[j]}

\* ShardManager.__init__ with a data directory that holds no log file.
ManagerInit ==
    /\ file = <<>> /\ WalNew /\ EngineNew /\ Unobserved
    /\ num_vnodes \in VnodeCounts
    /\ ring = <<>> /\ ring_map = EmptyMap /\ nodes = {}
    /\ digest = EmptyMap
    /\ rlast = NoRingCall /\ nring = 0
    /\ mphase = "new"
    /\ shard_ids \in ShardLists
    /\ Len(shard_ids) * num_vnodes <= MaxVnodes
    /\ shards = EmptyMap
    /\ mlast = NoManagerCall /\ mcalls = 0
    /\ slock = EmptyMap /\ sclosed = EmptyMap /\ data_dir = EmptyMap

\* initialize(): for shard_id in self.shard_ids, from index i on.
RECURSIVE InitShards(_, _, _)
InitShards(s, d, i) ==
    IF i > Len(shard_ids) THEN s
    ELSE InitShards(
             [engines |-> MapPut(s.engines, shard_ids[i], Shard(Replay(<<>>).state, <<>>)),
              hash_ring |-> AfterAddNode(s.hash_ring, d, shard_ids[i], num_vnodes)],
             d, i + 1)

\* ShardManager.initialize()
ManagerInitialize ==
    /\ mphase = "new"
    /\ \E d \in Hashed(digest, UNION {VnodeKeys(shard_ids[i], num_vnodes) : i \in 1..Len(shard_ids)}) :
          /\ digest' = d
          /\ LET s == InitShards([engines |-> shards, hash_ring |-> TheRing], d, 1)
             IN  /\ shards' = s.engines
                 /\ ring' = s.hash_ring.ring
                 /\ ring_map' = s.hash_ring.ring_map
                 /\ nodes' = s.hash_ring.nodes
    /\ mphase' = "ready"
    /\ UNCHANGED <<file, walVars, engVars, histVars, obsVars, num_vnodes, rlast, nring,
                   shard_ids, data_dir, mlast, mcalls, slock, sclosed>>

\* _get_shard(key), the key's position being h: self.hash_ring.get_node(key)
GetShard_First(h) == shard_ids[1]
GetShard(h) == Lookup(TheRing, h)

\* StorageEngine.put/delete/get/exists on the engine e, run to its end: the
\* engine it leaves and what it returns.
EngineDone(e, r) == [engine |-> e, ret |-> r]
EngineCall(e, name, k, v) ==
    IF name = "put"
    THEN EngineDone(Shard(MapPut(e.store, k, v), AppendedFile(e.file, "PUT", k, v)), None)
    ELSE IF name = "delete"
    THEN IF k \notin DOMAIN e.store THEN EngineDone(e, FALSE)
         ELSE EngineDone(Shard(MapPop(e.store, k), AppendedFile(e.file, "DELETE", k, None)), TRUE)
    ELSE IF name = "get" THEN EngineDone(e, MapGet(e.store, k))
    ELSE EngineDone(e, k \in DOMAIN e.store)

\* A call on the manager: shard = self._get_shard(key), then the same call on
\* that engine.  _get_shard raises when the ring names no shard.
ManagerCalled(name, k, v) ==
    /\ mphase = "ready"
    /\ mcalls < MaxManagerCalls
    /\ mcalls' = mcalls + 1
    /\ \E d \in Hashed(digest, {k}) :
          /\ digest' = d
          /\ LET sid == GetShard(d[k])
             IN  IF sid \in DOMAIN shards
                 THEN /\ mlast' = ManagerCall(name, k, v, sid,
                                              EngineCall(shards[sid], name, k, v).ret)
                      /\ shards' = [shards EXCEPT ![sid] =
                                       EngineCall(shards[sid], name, k, v).engine]
                 ELSE /\ mlast' = ManagerCall(name, k, v, sid, "raised")
                      /\ UNCHANGED shards
    /\ life' = IF name \in {"put", "delete"}
               THEN Append(life, Event(Call(name, k, v), TRUE)) ELSE life
    /\ UNCHANGED <<file, walVars, engVars, nevents, born, base, atLock, prevStore, obsVars,
                   num_vnodes, ring, ring_map, nodes, rlast, nring, mphase, shard_ids, data_dir,
                   slock, sclosed>>

ManagerPut(k, v) == ManagerCalled("put", k, v)
ManagerDelete(k) == ManagerCalled("delete", k, None)
ManagerGet(k) == ManagerCalled("get", k, None)
ManagerExists(k) == ManagerCalled("exists", k, None)

\* size() and get_stats(): for shard in self.shards.values(), the shards S left.
RECURSIVE TotalKeys(_, _)
TotalKeys_One(sh, S) ==
    IF S = {} THEN 0 ELSE MapLen(sh[CHOOSE sid \in S : TRUE].store)
TotalKeys(sh, S) ==
    IF S = {} THEN 0
    ELSE LET sid == CHOOSE sid \in S : TRUE
         IN  MapLen(sh[sid].store) + TotalKeys(sh, S \ {sid})

\* What get_stats() returns.
Stats(sh, r) ==
    [total_keys |-> TotalKeys(sh, DOMAIN sh),
     num_shards |-> Cardinality(DOMAIN sh),
     shards |-> [sid \in DOMAIN sh |-> MapLen(sh[sid].store)],
     vnodes_per_shard |-> Distribution(r)]

\* A call on the manager that reads every shard.
ManagerAsked(name, r) ==
    /\ mphase = "ready"
    /\ mlast' = ManagerCall(name, None, None, None, r)
    /\ UNCHANGED <<file, walVars, engVars, histVars, obsVars, ringVars,
                   mphase, shard_ids, data_dir, shards, mcalls, slock, sclosed>>

ManagerSize == ManagerAsked("size", TotalKeys(shards, DOMAIN shards))
ManagerGetStats == ManagerAsked("get_stats", Stats(shards, TheRing))

ManagerNext ==
    \/ ManagerInitialize
    \/ \E k \in Keys, v \in Values : ManagerPut(k, v)
    \/ \E k \in Keys : ManagerDelete(k)
    \/ \E k \in Keys : ManagerGet(k)
    \/ \E k \in Keys : ManagerExists(k)
    \/ ManagerSize
    \/ ManagerGetStats

\* One ShardManager on a fresh data directory and the calls made on it, one
\* after the other.
SpecManager == ManagerInit /\ [][ManagerNext]_vars

\* ------------------------------------------------------------- ShardManager, closed and constructed anew
\* What a log file of the data directory holds when a manager is constructed
\* on it: nothing, a record, or the part of a record that reached the file
\* before the process that wrote it died.
LeftFiles ==
    {<<>>, RecordLine("PUT", "a", "1"), TornFile(<<>>, "PUT", "a", "1", 1)}

\* ShardManager.__init__ on a data directory that an earlier process used
\* with the same shard ids.
RestartInit ==
    /\ file = <<>> /\ WalNew /\ EngineNew /\ Unobserved
    /\ num_vnodes \in VnodeCounts
    /\ ring = <<>> /\ ring_map = EmptyMap /\ nodes = {}
    /\ digest = EmptyMap
    /\ rlast = NoRingCall /\ nring = 0
    /\ mphase = "new"
    /\ shard_ids \in ShardLists
    /\ Len(shard_ids) * num_vnodes <= MaxVnodes
    /\ shards = EmptyMap
    /\ mlast = NoManagerCall /\ mcalls = 0
    /\ slock = EmptyMap /\ sclosed = EmptyMap
    /\ data_dir \in [{shard_ids[i] : i \in 1..Len(shard_ids)} -> LeftFiles]

\* initialize(): for shard_id in self.shard_ids, from index i on; the engine
\* of a shard replays the shard's file of the data directory.
RECURSIVE InitShardsOn(_, _, _, _)
InitShardsOn(s, d, i, dir) ==
    IF i > Len(shard_ids) THEN s
    ELSE InitShardsOn(
             [engines |-> MapPut(s.engines, shard_ids[i],
                                 Shard(Replay(dir[shard_ids[i]]).state, dir[shard_ids[i]])),
              hash_ring |-> AfterAddNode(s.hash_ring, d, shard_ids[i], num_vnodes)],
             d, i + 1, dir)

\* ShardManager.initialize() on the data directory.
RestartInitialize ==
    /\ mphase = "new"
    /\ \E d \in Hashed(digest, UNION {VnodeKeys(shard_ids[i], num_vnodes) : i \in 1..Len(shard_ids)}) :
          /\ digest' = d
          /\ LET s == InitShardsOn([engines |-> shards, hash_ring |-> TheRing], d, 1, data_dir)
             IN  /\ shards' = s.engines
                 /\ ring' = s.hash_ring.ring
                 /\ ring_map' = s.hash_ring.ring_map
                 /\ nodes' = s.hash_ring.nodes
    /\ data_dir' = EmptyMap
    /\ mphase' = "ready"
    /\ UNCHANGED <<file, walVars, engVars, histVars, obsVars, num_vnodes, rlast, nring,
                   shard_ids, mlast, mcalls, slock, sclosed>>

\* What get(k) returns for every key, and what size() returns.
Answers(d) ==
    [gets |-> [k \in Keys |->
                  IF Lookup(TheRing, d[k]) \in DOMAIN shards
                  THEN MapGet(shards[Lookup(TheRing, d[k])].store, k) ELSE "raised"],
     size |-> TotalKeys(shards, DOMAIN shards)]
Asked(d, n) == [at |-> "closed", answers |-> Answers(d), calls |-> n]

\* get(k) is called for every key and size() is called; then close().
ManagerClose ==
    /\ mphase = "ready"
    /\ \E d \in Hashed(digest, Keys) :
          /\ digest' = d
          /\ prevStore' = Asked(d, mcalls)
    /\ mphase' = "closed"
    /\ mlast' = ManagerCall("close", None, None, None, None)
    /\ UNCHANGED <<file, walVars, engVars, nevents, life, born, base, atLock, obsVars,
                   num_vnodes, ring, ring_map, nodes, rlast, nring,
                   shard_ids, shards, mcalls, slock, sclosed, data_dir>>

\* A new ShardManager is constructed with the shard ids, the data directory
\* and the vnode count of the closed one.
ManagerAnew ==
    /\ mphase = "closed"
    /\ data_dir' = [sid \in DOMAIN shards |-> shards[sid].file]
    /\ shards' = EmptyMap
    /\ ring' = <<>> /\ ring_map' = EmptyMap /\ nodes' = {}
    /\ mphase' = "new"
    /\ mlast' = NoManagerCall
    /\ UNCHANGED <<file, walVars, engVars, histVars, obsVars, num_vnodes, digest, rlast,
                   nring, shard_ids, mcalls, slock, sclosed>>

RestartNext ==
    \/ RestartInitialize
    \/ \E k \in Keys, v \in Values : ManagerPut(k, v)
    \/ \E k \in Keys : ManagerDelete(k)
    \/ ManagerClose
    \/ ManagerAnew

\* ShardManagers, one after the other, on one data directory.
SpecRestart == RestartInit /\ [][RestartNext]_vars
\* ------------------------------------------------------------- ShardManager, concurrent callers
\* A ShardManager whose callers run as tasks of one event loop: a task runs
\* until it has to wait, for a file operation or for a lock that is held.
\* ShardManager.__init__ with a data directory that holds no log file; the
\* list of shard ids may be empty.
ClusterShardLists == {<<>>, <<"shard-0">>, <<"shard-0", "shard-1">>}
ClusterValues == {"1"}
\* The tasks that call close(): the one that calls it first and another one.
Closers == {"c1", "c2"}
Callers == Tasks \cup Closers
ClusterInit ==
    /\ file = <<>> /\ WalNew
    /\ store = EmptyMap /\ lock = None /\ walLock = None /\ closed = FALSE
    /\ phase = "new"
    /\ pc = [t \in Callers |-> "idle"]
    /\ arg = [t \in Callers |-> NoCall]
    /\ last = NoReturn
    /\ nevents = 0 /\ life = <<>> /\ born = 0 /\ base = EmptyMap
    /\ atLock = NoSnapshot /\ prevStore = NoEngineBefore
    /\ observed = FALSE /\ hist = <<>> /\ seen = [t \in Callers |-> 0] /\ order = <<>>
    /\ num_vnodes \in VnodeCounts
    /\ ring = <<>> /\ ring_map = EmptyMap /\ nodes = {}
    /\ digest = EmptyMap
    /\ rlast = NoRingCall /\ nring = 0
    /\ mphase = "new"
    /\ shard_ids \in ClusterShardLists
    /\ Len(shard_ids) * num_vnodes <= MaxVnodes
    /\ shards = EmptyMap
    /\ mlast = NoManagerCall /\ mcalls = 0
    /\ slock = EmptyMap /\ sclosed = EmptyMap /\ data_dir = EmptyMap

Registered == Cardinality(DOMAIN shards)

\* initialize(): one round of "for shard_id in self.shard_ids".  The engine is
\* constructed and replays its log (the task waits for the file); then it is
\* put into self.shards and its id into the ring.
InitShard ==
    /\ mphase \in {"new", "initializing"}
    /\ Registered < Len(shard_ids)
    /\ LET sid == shard_ids[Registered + 1] IN
         \E d \in Hashed(digest, VnodeKeys(sid, num_vnodes)) :
            /\ digest' = d
            /\ shards' = MapPut(shards, sid, Shard(Replay(<<>>).state, <<>>))
            /\ slock' = MapPut(slock, sid, None)
            /\ sclosed' = MapPut(sclosed, sid, FALSE)
            /\ LET s == AfterAddNode(TheRing, d, sid, num_vnodes)
               IN  ring' = s.ring /\ ring_map' = s.ring_map /\ nodes' = s.nodes
    /\ mphase' = "initializing"
    /\ UNCHANGED <<file, walVars, engVars, histVars, obsVars, num_vnodes, rlast, nring,
                   shard_ids, data_dir, mlast, mcalls>>

\* initialize(): the loop is over; the sizes are read and logged; it returns.
InitDone ==
    /\ mphase \in {"new", "initializing"}
    /\ Registered = Len(shard_ids)
    /\ mphase' = "ready"
    /\ UNCHANGED <<file, walVars, engVars, histVars, obsVars, ringVars,
                   shard_ids, data_dir, shards, mlast, mcalls, slock, sclosed>>

\* _get_shard(): what is raised when the ring names no shard (RuntimeError),
\* or a shard that self.shards does not hold (KeyError).
NoShard_Ignored(sid) == None
NoShard(sid) == IF sid = None THEN "RuntimeError" ELSE KeyError

\* The tasks that hold the lock of a shard.
Holders == {t \in Tasks : \E sid \in DOMAIN slock : slock[sid] = t}

\* The call a task is in, and the shard it was routed to.
Routed(name, k, v, sid) == [name |-> name, key |-> k, value |-> v, shard |-> sid]

\* get/put/delete/exists(key) is called: shard = self._get_shard(key).  The
\* call ends here if _get_shard raises; otherwise the task goes on to the
\* engine's "async with self.lock".
Route(t, name, k, v) ==
    /\ mphase # "none"
    /\ pc[t] = "idle"
    /\ mcalls < MaxClusterCalls
    /\ mcalls' = mcalls + 1
    /\ \E d \in Hashed(digest, {k}) :
          /\ digest' = d
          /\ LET sid == GetShard(d[k])
             IN  IF sid \in DOMAIN shards
                 THEN /\ pc' = [pc EXCEPT ![t] = "lock"]
                      /\ arg' = [arg EXCEPT ![t] = Routed(name, k, v, sid)]
                      /\ seen' = [seen EXCEPT ![t] = Cardinality(Holders)]
                      /\ UNCHANGED mlast
                 ELSE /\ mlast' = ManagerCall(name, k, v, sid, NoShard(sid))
                      /\ UNCHANGED <<pc, arg, seen>>
    /\ UNCHANGED <<file, walVars, store, lock, walLock, closed, phase, last, histVars,
                   observed, hist, order, num_vnodes, ring, ring_map, nodes, rlast, nring,
                   mphase, shard_ids, data_dir, shards, slock, sclosed>>

\* Whether the call c on the engine e writes a record.
Writes(e, c) == c.name = "put" \/ (c.name = "delete" /\ c.key \in DOMAIN e.store)

\* The engine's "async with self.lock" is entered.  get, exists and a delete
\* of an absent key run to their return without waiting; put and a delete of
\* a present key go on to wait for the log, holding the lock.
ShardLock_Shared(t) ==
    /\ pc[t] = "lock" /\ "shard" \in DOMAIN arg[t]
    /\ \A sid \in DOMAIN slock : slock[sid] = None
    /\ LET c == arg[t]
           e == shards[c.shard]
       IN  IF Writes(e, c)
           THEN /\ slock' = [slock EXCEPT ![c.shard] = t]
                /\ pc' = [pc EXCEPT ![t] = "append"]
                /\ UNCHANGED <<arg, mlast>>
           ELSE /\ mlast' = ManagerCall(c.name, c.key, c.value, c.shard,
                                        EngineCall(e, c.name, c.key, c.value).ret)
                /\ pc' = [pc EXCEPT ![t] = "idle"]
                /\ arg' = [arg EXCEPT ![t] = NoCall]
                /\ UNCHANGED slock
    /\ UNCHANGED <<file, walVars, store, lock, walLock, closed, phase, last, histVars,
                   obsVars, ringVars, mphase, shard_ids, data_dir, shards, mcalls, sclosed>>
ShardLock(t) ==
    /\ pc[t] = "lock" /\ "shard" \in DOMAIN arg[t]
    /\ slock[arg[t].shard] = None
    /\ LET c == arg[t]
           e == shards[c.shard]
       IN  IF Writes(e, c)
           THEN /\ slock' = [slock EXCEPT ![c.shard] = t]
                /\ pc' = [pc EXCEPT ![t] = "append"]
                /\ UNCHANGED <<arg, mlast>>
           ELSE /\ mlast' = ManagerCall(c.name, c.key, c.value, c.shard,
                                        EngineCall(e, c.name, c.key, c.value).ret)
                /\ pc' = [pc EXCEPT ![t] = "idle"]
                /\ arg' = [arg EXCEPT ![t] = NoCall]
                /\ UNCHANGED slock
    /\ UNCHANGED <<file, walVars, store, lock, walLock, closed, phase, last, histVars,
                   obsVars, ringVars, mphase, shard_ids, data_dir, shards, mcalls, sclosed>>

\* wal.append() has returned: the record is in the shard's log; the map is
\* updated, the lock released, and the call returns.
ShardDone(t) ==
    /\ pc[t] = "append" /\ "shard" \in DOMAIN arg[t]
    /\ LET c == arg[t]
           r == EngineCall(shards[c.shard], c.name, c.key, c.value)
       IN  /\ shards' = [shards EXCEPT ![c.shard] = r.engine]
           /\ mlast' = ManagerCall(c.name, c.key, c.value, c.shard, r.ret)
           /\ slock' = [slock EXCEPT ![c.shard] = None]
    /\ pc' = [pc EXCEPT ![t] = "idle"]
    /\ arg' = [arg EXCEPT ![t] = NoCall]
    /\ UNCHANGED <<file, walVars, store, lock, walLock, closed, phase, last, histVars,
                   obsVars, ringVars, mphase, shard_ids, data_dir, mcalls, sclosed>>

\* close(): "for shard_id, shard in self.shards.items(): await shard.close()"
\* from the i-th shard on, as far as it gets without waiting.  An engine that
\* is marked closed is passed over; one whose lock is free is marked closed;
\* at one whose lock is held the task waits.
Closing(i) == [name |-> "close", key |-> None, value |-> None, at |-> i]
RECURSIVE CloseRun(_, _)
CloseRun_Toggle(cl, i) ==
    IF i > Registered THEN [closed |-> cl, at |-> i, waits |-> FALSE]
    ELSE IF slock[shard_ids[i]] = None
    THEN CloseRun([cl EXCEPT ![shard_ids[i]] = ~cl[shard_ids[i]]], i + 1)
    ELSE [closed |-> cl, at |-> i, waits |-> TRUE]
CloseRun(cl, i) ==
    IF i > Registered THEN [closed |-> cl, at |-> i, waits |-> FALSE]
    ELSE IF cl[shard_ids[i]] THEN CloseRun(cl, i + 1)
    ELSE IF slock[shard_ids[i]] = None
    THEN CloseRun([cl EXCEPT ![shard_ids[i]] = TRUE], i + 1)
    ELSE [closed |-> cl, at |-> i, waits |-> TRUE]

\* Where close() of t stands after the run r.
CloseRan(t, r) ==
    /\ sclosed' = r.closed
    /\ IF r.waits
       THEN /\ pc' = [pc EXCEPT ![t] = "closewait"]
            /\ arg' = [arg EXCEPT ![t] = Closing(r.at)]
            /\ UNCHANGED mlast
       ELSE /\ pc' = [pc EXCEPT ![t] = "idle"]
            /\ arg' = [arg EXCEPT ![t] = NoCall]
            /\ mlast' = ManagerCall("close", None, None, None, None)

\* close() is called on a manager whose initialize() has returned.
CloseCall(t) ==
    /\ mphase = "ready"
    /\ pc[t] = "idle"
    /\ t = "c2" => nevents > 0
    /\ nevents < MaxCloses
    /\ nevents' = nevents + 1
    /\ CloseRan(t, CloseRun(sclosed, 1))
    /\ UNCHANGED <<file, walVars, store, lock, walLock, closed, phase, last,
                   life, born, base, atLock, prevStore, obsVars, ringVars,
                   mphase, shard_ids, data_dir, shards, mcalls, slock>>

\* The lock close() waited for is free: self._closed = True, written whether
\* or not another close() has set it meanwhile, and on to the next shard.
CloseResume(t) ==
    /\ pc[t] = "closewait"
    /\ slock[shard_ids[arg[t].at]] = None
    /\ CloseRan(t, CloseRun([sclosed EXCEPT ![shard_ids[arg[t].at]] = TRUE], arg[t].at + 1))
    /\ UNCHANGED <<file, walVars, store, lock, walLock, closed, phase, last,
                   histVars, obsVars, ringVars, mphase, shard_ids, data_dir, shards, mcalls, slock>>

\* close() is cancelled while it waits for a lock: CancelledError leaves
\* shard.close() and, the loop having no handler, close().
CloseCancel(t) ==
    /\ pc[t] = "closewait"
    /\ pc' = [pc EXCEPT ![t] = "idle"]
    /\ arg' = [arg EXCEPT ![t] = NoCall]
    /\ mlast' = ManagerCall("close", None, None, None, "CancelledError")
    /\ UNCHANGED <<file, walVars, store, lock, walLock, closed, phase, last,
                   histVars, obsVars, ringVars, mphase, shard_ids, data_dir, shards, mcalls,
                   slock, sclosed>>

ClusterNext ==
    \/ InitShard
    \/ InitDone
    \/ \E t \in Tasks, k \in Keys, v \in ClusterValues : Route(t, "put", k, v)
    \/ \E t \in Tasks, k \in Keys : Route(t, "delete", k, None)
    \/ \E t \in Tasks, k \in Keys : Route(t, "get", k, None)
    \/ \E t \in Tasks, k \in Keys : Route(t, "exists", k, None)
    \/ \E t \in Tasks : ShardLock(t)
    \/ \E t \in Tasks : ShardDone(t)
    \/ \E t \in Closers : CloseCall(t)
    \/ \E t \in Closers : CloseResume(t)
    \/ \E t \in Closers : CloseCancel(t)

\* One ShardManager on a fresh data directory, from its construction on, with
\* concurrent callers of its key operations and of close().
SpecCluster == ClusterInit /\ [][ClusterNext]_vars
\* ------------------------------------------------------------- claims on the engine
Mutators == {t \in Tasks : arg[t].name \in {"put", "delete"}}
InAppend(t) == pc[t] \in {"append", "write"}

\* C1: put() (and delete()) hold the shard lock from before the append until
\* after the map update; the record is whole in the log before the map
\* changes; no get/exists/size runs in between.
C1_AppendThenStore ==
    \A t \in Tasks :
        /\ pc[t] \in {"append", "write", "store", "read"} => lock = t
        /\ (t \in Mutators /\ InAppend(t)) => store = atLock.store
        /\ (t \in Mutators /\ pc[t] = "store") =>
              /\ store = atLock.store
              /\ file = atLock.file \o LineOf(arg[t])
        /\ (t \in Mutators /\ pc[t] \in {"append", "write", "store"}) =>
              \A u \in Tasks \ {t} : pc[u] \in {"idle", "lock"}

C1_Witness ==
    \E t \in Tasks, u \in Tasks :
        /\ pc[t] = "store" /\ arg[t].name = "put"
        /\ pc[u] = "lock" /\ arg[u].name = "get" /\ arg[u].key = arg[t].key

\* What the mutations that returned, and none in doubt after them, leave of key k.
Settled(k) == LastOn(life, k) > 0 /\ life[LastOn(life, k)].sure
SettledValue(k) ==
    IF life[LastOn(life, k)].op = "PUT" THEN life[LastOn(life, k)].value ELSE None

\* C2: a put() or a delete() that returned is reflected by every engine
\* initialized on the log afterwards, whatever crashes and restarts happen.
C2_Durable ==
    phase = "ready" =>
        \A k \in Keys : Settled(k) => MapGet(store, k) = SettledValue(k)

\* C3: after close(), a new engine on the same log, once initialized, holds
\* the keys and values the closed engine held.
C3_RestartRoundTrip ==
    (phase = "ready" /\ prevStore.at = "closed") => base = prevStore.state

\* The call of t returns in this step.
Returns(t) == pc[t] # "idle" /\ pc'[t] = "idle" /\ phase' = "ready"
MapWithout(m, k, n) ==
    /\ DOMAIN n = (DOMAIN m) \ {k}
    /\ \A x \in DOMAIN n : n[x] = m[x]

\* C9: delete(k) of an absent key returns false, appends nothing and leaves
\* the map as it was; of a present key it appends one DELETE record, removes k
\* and returns true.
C9_Delete ==
    [][\A t \in Tasks : (arg[t].name = "delete" /\ Returns(t)) =>
          LET before == IF pc[t] = "lock" THEN Snapshot ELSE atLock
              k == arg[t].key
          IN  IF k \notin DOMAIN before.store
              THEN last'.ret = FALSE /\ file' = before.file /\ store' = before.store
              ELSE /\ last'.ret = TRUE
                   /\ file' = before.file \o RecordLine("DELETE", k, None)
                   /\ MapWithout(before.store, k, store')]_vars

C9_Witness ==
    /\ last.call.name = "delete" /\ last.ret = TRUE
    /\ last.call.key \notin DOMAIN store
    /\ Len(life) = 2 /\ life[1].op = "PUT" /\ life[2].op = "DELETE"

\* The put/delete calls that returned on this engine since its initialize().
Calls == SubSeq(life, born + 1, Len(life))
AfterCalls(k, otherwise) ==
    IF LastOn(Calls, k) = 0 THEN otherwise
    ELSE IF Calls[LastOn(Calls, k)].op = "PUT" THEN Calls[LastOn(Calls, k)].value
    ELSE None
Answer(c, val(_)) ==
    IF c.name = "get" THEN val(c.key)
    ELSE IF c.name = "exists" THEN val(c.key) # None
    ELSE Cardinality({k \in Keys : val(k) # None})
Reads(t) == arg[t].name \in {"get", "exists", "size"} /\ Returns(t)

\* C10 as stated: get(k) returns the value of the latest put(k, .) on the
\* engine that no delete(k) followed and None otherwise; exists(k) and size()
\* agree with it.
C10_NoneOtherwise ==
    [][\A t \in Tasks : Reads(t) =>
          LET val(k) == AfterCalls(k, None)
          IN  last'.ret = Answer(arg[t], val)]_vars

\* C10, amended: a key that no put or delete of this engine touched has the
\* value initialize() restored from the log, and None only if it restored none.
C10_Sequential ==
    [][\A t \in Tasks : Reads(t) =>
          LET val(k) == AfterCalls(k, MapGet(base, k))
          IN  last'.ret = Answer(arg[t], val)]_vars

C10_Witness ==
    /\ last.call.name = "get" /\ last.ret # None
    /\ LastOn(Calls, last.call.key) = 0
    /\ last.ret = MapGet(base, last.call.key)

\* ------------------------------------------------------------- claims on concurrent callers
\* The sequential map: what one call makes of the map m, and what it returns.
SeqAfter(m, c) ==
    IF c.name = "put"
    THEN [x \in (DOMAIN m) \cup {c.key} |-> IF x = c.key THEN c.value ELSE m[x]]
    ELSE IF c.name = "delete" THEN [x \in (DOMAIN m) \ {c.key} |-> m[x]]
    ELSE m
SeqReturns(m, c) ==
    IF c.name = "put" THEN None
    ELSE IF c.name = "delete" THEN c.key \in DOMAIN m
    ELSE IF c.name = "get" THEN (IF c.key \in DOMAIN m THEN m[c.key] ELSE None)
    ELSE IF c.name = "exists" THEN c.key \in DOMAIN m
    ELSE Cardinality(DOMAIN m)

\* The orders in which the n calls that returned can be lined up: p[i] is the
\* place in hist of the i-th call of the line.
Orders(n) == {p \in [1..n -> 1..n] : \A i, j \in 1..n : i # j => p[i] # p[j]}
\* A call that returned before another was issued comes before it.
RespectsTime(p) ==
    \A i, j \in DOMAIN p : p[j] <= hist[p[i]].after => j < i
RECURSIVE Explains(_, _, _)
Explains(p, i, m) ==
    IF i > Len(hist) THEN m = store
    ELSE /\ SeqReturns(m, hist[p[i]].call) = hist[p[i]].ret
         /\ Explains(p, i + 1, SeqAfter(m, hist[p[i]].call))

\* C11: the results of the calls that returned on one engine, and its map, are
\* those of running the same calls one after the other in some order that
\* keeps every call that had returned before another was issued ahead of it.
C11_Linearizable ==
    \E p \in Orders(Len(hist)) : RespectsTime(p) /\ Explains(p, 1, base)

C11_Witness ==
    /\ Len(hist) = 2
    /\ hist[1].call.name = "put" /\ hist[2].call.name = "put"
    /\ hist[1].call.key # hist[2].call.key
    /\ hist[1].after = 0 /\ hist[2].after = 0
    /\ DOMAIN store = Keys

\* The lines of the calls in lock order whose record is in the file.
RECURSIVE LinesOf(_)
LinesOf(es) ==
    IF es = <<>> THEN <<>>
    ELSE (IF Head(es).wrote THEN LineOf(Head(es).call) ELSE <<>>) \o LinesOf(Tail(es))

\* C12: the records of the log stand in the order in which the put/delete
\* calls that wrote them took the shard lock.
C12_WalInLockOrder == file = LinesOf(order)

C12_Witness ==
    /\ Len(order) = 2 /\ order[1].wrote /\ order[2].wrote
    /\ order[1].by # order[2].by
    /\ order[1].call.name = "put" /\ order[2].call.name = "delete"
    /\ order[1].call.key = order[2].call.key
    /\ Len(hist) = 2 /\ hist[2].after = 0

\* The last call in lock order that wrote a record of key k, or 0.
LastWrote(k) ==
    LET S == {i \in 1..Len(order) : order[i].call.key = k /\ order[i].wrote}
    IN  IF S = {} THEN 0 ELSE CHOOSE i \in S : \A j \in S : j <= i

\* C13: a put or delete abandoned after its record was written is not rolled
\* back: reads on the same engine and a replay of the log both show it.
C13_AbandonedObserved ==
    \A k \in Keys :
        (LastWrote(k) > 0 /\ order[LastWrote(k)].left) =>
            /\ MapGet(store, k) = RecordOf(order[LastWrote(k)].call).value
            /\ MapGet(Replay(file).state, k) = RecordOf(order[LastWrote(k)].call).value

\* ------------------------------------------------------------- claims on the ring
Min(S) == CHOOSE x \in S : \A y \in S : x <= y
OnRing == {ring[i] : i \in 1..Len(ring)}
\* The first position after h going clockwise.
Successor(h) ==
    IF \E p \in OnRing : p > h THEN Min({p \in OnRing : p > h}) ELSE Min(OnRing)

\* C14: on a non-empty ring get_node(k) returns the node of the first position
\* strictly greater than hash(k), and of the lowest position when none is
\* greater; a position equal to hash(k) does not own k.
C14_NextClockwise ==
    (rlast.name = "get_node" /\ ring # <<>>) =>
        /\ Successor(digest[rlast.arg]) \in DOMAIN ring_map
        /\ rlast.ret = ring_map[Successor(digest[rlast.arg])]

\* C15: get_node(k) returns None exactly when the ring has no vnode, and
\* otherwise returns, without raising, a node that is registered.
C15_Coverage ==
    rlast.name = "get_node" =>
        /\ rlast.ret = None <=> ring = <<>>
        /\ ring # <<>> => rlast.ret \in nodes

\* The owner of the keys at position h, before and after a step.
Owner(h) == Lookup(TheRing, h)
OwnerAfter(h) == Lookup(RingOf(ring', ring_map', nodes'), h)

\* C16: add_node(n) leaves every key with its owner or gives it to n;
\* remove_node(n) leaves every key that n did not own with its owner.
C16_MinimalDisruption ==
    [][/\ rlast'.name = "add_node" =>
             \A h \in Positions : OwnerAfter(h) \in {Owner(h), rlast'.arg}
       /\ rlast'.name = "remove_node" =>
             \A h \in Positions : Owner(h) # rlast'.arg => OwnerAfter(h) = Owner(h)]_vars

C16_Witness ==
    /\ rlast.name = "add_node" /\ ~rlast.known /\ rlast.arg = "shard-2"
    /\ nodes = Nodes
    /\ Cardinality(OnRing) = Len(ring)
    /\ \E h, g \in Positions : Owner(h) = "shard-2" /\ Owner(g) = "shard-0"

\* The ring that add_node of the nodes of q, in that order, builds from nothing.
RECURSIVE Built(_, _)
Built(q, s) ==
    IF q = <<>> THEN s ELSE Built(Tail(q), AfterAddNode(s, digest, Head(q), num_vnodes))
Listings(S) ==
    {q \in SeqsUpTo(S, Cardinality(S)) :
        Len(q) = Cardinality(S) /\ \A i, j \in 1..Len(q) : i # j => q[i] # q[j]}

\* C17: which node get_node(k) returns depends on the set of registered nodes
\* alone: every ring built with the same nodes returns the same node.
C17_RouteByNodeSet ==
    \A q \in Listings(nodes) : \A h \in Positions :
        Lookup(Built(q, NewRing), h) = Owner(h)

\* C18: add_node of a registered node and remove_node of an unregistered one
\* return and leave nodes, ring and ring_map as they were.
C18_NoOps ==
    [][((rlast'.name = "add_node" /\ rlast'.arg \in nodes)
          \/ (rlast'.name = "remove_node" /\ rlast'.arg \notin nodes)) =>
             /\ rlast'.ret = None
             /\ UNCHANGED <<ring, ring_map, nodes>>]_vars

C18_Witness ==
    /\ rlast.name = "add_node" /\ rlast.known
    /\ rlast.arg \in nodes /\ Cardinality(nodes) = 2
    /\ Len(ring) = 2 * num_vnodes

\* C19: every registered node has num_vnodes vnodes in get_distribution(), the
\* ring has num_vnodes positions a node, and no two of them are equal.
C19_VnodesPerNode ==
    /\ \A n \in nodes : Distribution(TheRing)[n] = num_vnodes
    /\ Len(ring) = num_vnodes * Cardinality(nodes)
    /\ Cardinality(OnRing) = Len(ring)

C30_RingSorted ==
    \A i, j \in 1..Len(ring) : i < j => ring[i] <= ring[j]

\* A node was removed that had a position between two positions that stay.
C30_Witness ==
    /\ rlast.name = "remove_node" /\ rlast.known
    /\ Len(ring) = 2 /\ ring[1] < ring[2]
    /\ \E i \in 0..(num_vnodes - 1) :
          /\ ring[1] < digest[VnodeKey(rlast.arg, i)]
          /\ digest[VnodeKey(rlast.arg, i)] < ring[2]

\* ------------------------------------------------------------- claims on the life of a log
\* g holds f and, after it, what was added.
Extends(f, g) == Len(f) <= Len(g) /\ SubSeq(g, 1, Len(f)) = f

\* C26: every step of a shard's life (calls, replay, close, a new engine on
\* the file, a crash) leaves what the log held as the start of what it holds;
\* a put that returns, and a delete that returns True, has added its one record
\* to what the log held when it took the lock.
C26_AppendOnly ==
    [][/\ Extends(file, file')
       /\ \A t \in Tasks :
             (Returns(t) /\ pc[t] = "store") => file' = atLock.file \o LineOf(arg[t])
       /\ \A t \in Tasks :
             (Returns(t) /\ pc[t] # "store") => file' = file]_vars

\* A second engine on the log of the first, and a delete on it that returned True.
C26_Witness ==
    /\ phase = "ready" /\ prevStore # NoEngineBefore /\ born >= 1
    /\ last.call.name = "delete" /\ last.ret = TRUE
    /\ Len(SplitLines(file, <<>>)) >= 2
    /\ store = EmptyMap

\* ------------------------------------------------------------- claims on reads
\* The steps of a get(), exists() or size() call of t, but for a crash.
ReadStep(t) ==
    /\ arg[t].name \in {"get", "exists", "size"}
    /\ pc'[t] # pc[t]
    /\ phase' = "ready"

\* C28: get, exists and size read the map while holding the shard lock; no
\* step of theirs adds to the log or changes the map.
C28_PureReads ==
    [][\A t \in Tasks :
          /\ ReadStep(t) => file' = file /\ store' = store
          /\ (ReadStep(t) /\ pc[t] = "read") =>
                /\ lock = t
                /\ \A u \in Tasks \ {t} : pc[u] \notin {"append", "write", "store", "read"}
                /\ last'.ret = ReadResult(store, arg[t])]_vars

\* A size() returned the number of keys while a put waits for the lock, on a
\* log that holds a record.
C28_Witness ==
    /\ last.call.name = "size" /\ last.ret = 1
    /\ file # <<>> /\ MapLen(store) = 1
    /\ \E u \in Tasks : pc[u] = "lock" /\ arg[u].name = "put"

\* ------------------------------------------------------------- claims on the manager's counts
\* The keys whose latest put or delete through the manager is a put.
LiveKeys == DOMAIN Folded(life)
\* The keys each shard holds, one pair a shard and key.
Held == {p \in (DOMAIN shards) \X Keys : p[2] \in DOMAIN shards[p[1]].store}

Writing == {t \in Tasks : pc[t] \in {"write", "close"}}
RECURSIVE LinesOfRecords(_)
LinesOfRecords(recs) ==
    IF recs = <<>> THEN <<>>
    ELSE RecordLine(Head(recs).op, Head(recs).key, Head(recs).value) \o LinesOfRecords(Tail(recs))
\* What the callers that are closing the file have flushed of their lines.
RECURSIVE Flushed(_)
Flushed(S) ==
    IF S = {} THEN <<>>
    ELSE LET t == CHOOSE t \in S : TRUE
         IN  SubSeq(LineOf(arg[t]), 1, arg[t].done) \o Flushed(S \ {t})

\* C27: at most one caller of append() is inside its write section; the file
\* is the lines of the appends that returned, each whole and on a line of its
\* own, followed by what the one caller still writing has written of its line.
C27_AppendsSerialized ==
    /\ Cardinality(Writing) <= 1
    /\ file = LinesOfRecords(wwhole) \o Flushed({t \in Tasks : pc[t] = "close"})
    /\ Writing = {} => Replay(file).state = Folded(wwhole)

\* Two appends are under way at once: one has written a part of its line and
\* holds the lock, the other waits for it.
C27_Witness ==
    \E t, u \in Tasks :
        /\ pc[t] = "close" /\ arg[t].done = 2 /\ walLock = t
        /\ pc[u] = "append" /\ arg[u].key # arg[t].key
        /\ Len(file) = 2

\* ------------------------------------------------------------- claims on the manager's life
\* A key call is issued; close() of t takes a step.
KeyCallIssued == mcalls' = mcalls + 1
\* close() of t is called, or goes on after a wait (a step in which it is
\* cancelled is not one of its own).
CloseStep(t) ==
    \/ /\ pc[t] = "idle" /\ nevents' = nevents + 1
       /\ pc'[t] = "closewait" \/ pc' = pc
    \/ /\ pc[t] = "closewait"
       /\ \/ pc'[t] = "closewait" /\ arg'[t] # arg[t]
          \/ pc'[t] = "idle" /\ mlast'.ret = None
\* Every engine of the manager is marked closed.
AllClosed == DOMAIN sclosed # {} /\ \A sid \in DOMAIN sclosed : sclosed[sid]

\* C22: a key call on a manager whose ring holds no node raises the
\* RuntimeError of _get_shard to its caller, is over with that, and leaves
\* every shard's map and log as they were.
C22_EmptyRingFatal ==
    [][(KeyCallIssued /\ nodes = {}) =>
          /\ mlast'.ret = "RuntimeError"
          /\ mlast'.name \in {"get", "put", "delete", "exists"}
          /\ UNCHANGED <<pc, arg, shards, slock, sclosed>>]_vars

\* A put and a get were made before initialize(); both raised.
C22_Witness ==
    /\ mphase = "new" /\ mcalls = 2
    /\ mlast.name = "get" /\ mlast.ret = "RuntimeError"
    /\ shards = EmptyMap /\ nodes = {}
    /\ \A t \in Callers : pc[t] = "idle"

\* C23: a key call issued before initialize() has returned, or after close()
\* has, ends at once with an error; no shard's map or log changes then.
C23_OnlyReadyAccepts ==
    [][/\ (KeyCallIssued /\ (mphase # "ready" \/ AllClosed)) =>
             /\ UNCHANGED <<pc, arg>>
             /\ mlast'.ret \in {"RuntimeError", KeyError}
       /\ (DOMAIN shards' = DOMAIN shards /\ shards' # shards) =>
             mphase = "ready" /\ ~AllClosed]_vars

\* C24: when close() is over, every shard's engine has been closed, but for
\* the one whose closing raised, if one did.
C24_ClosesRemaining ==
    mlast.name = "close" =>
        Cardinality({sid \in DOMAIN sclosed : ~sclosed[sid]})
            <= (IF mlast.ret = None THEN 0 ELSE 1)

\* C25: no step of a close() changes a shard's map or log or unmarks an
\* engine; a close() that returns does so without an error and leaves every
\* engine marked closed; on a manager whose engines are all closed, by a
\* close() that is over or by one that runs beside it, it returns at once and
\* changes nothing.
C25_CloseIdempotent ==
    [][\A t \in Closers : CloseStep(t) =>
          /\ shards' = shards
          /\ \A sid \in DOMAIN sclosed : sclosed[sid] => sclosed'[sid]
          /\ AllClosed =>
                /\ UNCHANGED <<sclosed, slock>>
                /\ pc'[t] = "idle" /\ mlast'.ret = None
          /\ pc'[t] = "idle" =>
                /\ mlast'.name = "close" /\ mlast'.ret = None
                /\ \A sid \in DOMAIN sclosed' : sclosed'[sid]]_vars

\* Two close() calls waited for the same put.  The first has closed both
\* engines and returned; the second is still where it waited; the put's
\* record is the whole log of its shard.
C25_Witness ==
    /\ nevents = 2 /\ mlast.name = "close" /\ mlast.ret = None
    /\ AllClosed /\ Len(shard_ids) = 2
    /\ pc["c1"] = "idle" /\ pc["c2"] = "closewait"
    /\ slock[shard_ids[arg["c2"].at]] = None
    /\ \E sid \in DOMAIN shards : shards[sid].file = RecordLine("PUT", "a", "1")

\* C29: a call that waits for the lock of a shard whose lock is free can take
\* it, and a call that holds the lock of its shard can finish, whoever holds
\* the locks of the other shards.
C29_NoSharedLock ==
    \A t \in Tasks :
        /\ (pc[t] = "lock" /\ slock[arg[t].shard] = None) => ENABLED ShardLock(t)
        /\ (pc[t] = "append" /\ slock[arg[t].shard] = t) => ENABLED ShardDone(t)

\* A put has run from its call to its return on one shard while the put of
\* the other caller held the lock of the other shard.
C29_Witness ==
    \E t, u \in Tasks :
        /\ pc[t] = "append" /\ slock[arg[t].shard] = t
        /\ pc[u] = "idle" /\ seen[u] = 1 /\ mcalls = 2
        /\ mlast.name = "put" /\ mlast.shard # arg[t].shard
        /\ shards[mlast.shard].file # <<>> /\ shards[arg[t].shard].file = <<>>


\* ------------------------------------------------------------- claims on the ring's positions
\* C31: remove_node(n) of a registered n leaves no position that maps to n,
\* leaves the position of every other node in the list and in the map with
\* its node, and leaves the list and the map with the same positions.
C31_RemoveExact ==
    [][(rlast'.name = "remove_node" /\ rlast'.arg \in nodes /\ nring' = nring + 1) =>
          /\ \A p \in DOMAIN ring_map' : ring_map'[p] # rlast'.arg
          /\ \A p \in DOMAIN ring_map : ring_map[p] # rlast'.arg =>
                /\ p \in DOMAIN ring_map' /\ ring_map'[p] = ring_map[p]
                /\ \E i \in 1..Len(ring') : ring'[i] = p
          /\ {ring'[i] : i \in 1..Len(ring')} = DOMAIN ring_map']_vars


\* The first position at or after h going clockwise.
AtOrAfter(h) ==
    IF \E p \in OnRing : p >= h THEN Min({p \in OnRing : p >= h}) ELSE Min(OnRing)
\* self.ring_map[ring_position] for the position p
NodeAt(p) == IF p \in DOMAIN ring_map THEN ring_map[p] ELSE KeyError

\* C32 as stated: get_node(k) on a non-empty ring returns the node of the
\* first position greater than or equal to hash(k), of the lowest position
\* when there is none; a position equal to hash(k) owns k.
C32_FirstAtOrAfter ==
    (rlast.name = "get_node" /\ ring # <<>>) =>
        rlast.ret = NodeAt(AtOrAfter(digest[rlast.arg]))

\* C32: get_node(k) on a non-empty ring looks up the first position strictly
\* greater than hash(k), the lowest position when there is none, and returns
\* what the position-to-node map holds for it; a position equal to hash(k) is
\* passed over.
C32_FirstAfter ==
    (rlast.name = "get_node" /\ ring # <<>>) =>
        /\ rlast.ret = NodeAt(Successor(digest[rlast.arg]))
        /\ (digest[rlast.arg] \in OnRing /\ Cardinality(OnRing) > 1) =>
              Successor(digest[rlast.arg]) # digest[rlast.arg]

\* The key's hash is the position of one node's vnode; the ring has another
\* position, of another node, and that node was returned.
C32_Witness ==
    /\ rlast.name = "get_node" /\ Len(ring) = 2 /\ Cardinality(OnRing) = 2
    /\ Cardinality(nodes) = 2
    /\ digest[rlast.arg] \in OnRing
    /\ rlast.ret \in nodes
    /\ rlast.ret # ring_map[digest[rlast.arg]]


\* ------------------------------------------------------------- claims on map and log
\* C33: whenever the engine is initialized and its lock is free, the map is
\* what replay() returns for the file as it is.
C33_MapIsReplay ==
    (phase = "ready" /\ lock = None) => store = Replay(file).state


\* ------------------------------------------------------------- claims on failing appends
\* The append of the call of t fails in this step.
AppendFails(t) == pc[t] = "write" /\ pc'[t] = "idle"

\* C34: when the append of a put or delete fails, the call ends with the
\* error, the map is as it was, and neither lock is held; and a lock is never
\* held but by a call that is under way, so that the calls that wait for it
\* can go on.
C34_FailedAppend ==
    [][/\ \A t \in Tasks : AppendFails(t) =>
             /\ last'.call = arg[t] /\ last'.ret = OSError
             /\ store' = store
             /\ lock' = None /\ walLock' = None
       /\ lock' # None => pc'[lock'] \in {"append", "write", "store", "read"}
       /\ walLock' # None => pc'[walLock'] = "write"]_vars

\* A put of "b" has failed after part of its record reached the file; the
\* map still holds what it held; the other caller waits for the lock, which
\* is free.
C34_Witness ==
    /\ last.call.name = "put" /\ last.call.key = "b" /\ last.ret = OSError
    /\ store = MapPut(EmptyMap, "a", "1")
    /\ lock = None /\ walLock = None
    /\ file # RecordLine("PUT", "a", "1") /\ Replay(file).state = store
    /\ \E t \in Tasks : pc[t] = "lock" /\ arg[t].name = "get"


\* ------------------------------------------------------------- claims on progress
\* C35: the log's lock is held only by the holder of the engine's lock, a lock
\* is held only by a call that is under way, and every call that has begun
\* returns.
C35_EveryCallReturns ==
    /\ [](walLock # None => lock = walLock)
    /\ [](lock # None => pc[lock] \in {"append", "write", "store", "read"})
    /\ \A t \in Tasks : (pc[t] # "idle") ~> (pc[t] = "idle")

\* A put holds both locks and is writing; a close() waits for the engine's
\* lock.
C35_Witness ==
    \E t, u \in Tasks :
        /\ pc[t] = "write" /\ arg[t].name = "put" /\ lock = t /\ walLock = t
        /\ pc[u] = "lock" /\ arg[u].name = "close"


\* ------------------------------------------------------------- claims on the owners of keys
\* C36: on a manager whose initialize() has returned, a key that a shard's
\* map holds is held by that shard alone, and that shard is the one the ring
\* names for the key.
C36_SingleOwner ==
    mphase = "ready" =>
        \A sid \in DOMAIN shards : \A k \in DOMAIN shards[sid].store :
            /\ GetShard(digest[k]) = sid
            /\ \A other \in DOMAIN shards \ {sid} : k \notin DOMAIN shards[other].store


\* ------------------------------------------------------------- claims on a manager constructed anew
\* C37: a manager constructed and initialized on the data directory of a
\* closed one, with its shard ids and vnode count, returns for every key what
\* the closed one returned for get(k) before its close(), and the same size().
C37_RestartRoundTrip ==
    (mphase = "ready" /\ prevStore.at = "closed" /\ prevStore.calls = mcalls) =>
        Answers(digest) = prevStore.answers

====
